---------------------------- MODULE Spec2Model ----------------------------
(***************************************************************************)
(* A model of `spaces` (garymjr/spaces): disposable clones of a git        *)
(* repository.  Each part of the program that is modelled has its own      *)
(* specification over the same variables:                                  *)
(*                                                                         *)
(*   SpecRm    the target resolver and the removal command (targets.rs,    *)
(*             paths.rs, main.rs: cmd_rm, safe_remove_clone)               *)
(*   SpecCfg   the configuration resolver (config.rs, git.rs)              *)
(*   SpecCmd   the config command (main.rs: cmd_config)                    *)
(*   SpecCopy  the pattern copy engine (copy.rs)                           *)
(*   SpecSanitize, SpecResolve, SpecHooks                                  *)
(*             sanitize_branch_name, resolve_target and run_hooks, each    *)
(*             called on its own (paths.rs, targets.rs, hooks.rs)          *)
(*   SpecNew   the new command (main.rs: cmd_new, clone.rs)                *)
(*   SpecSecrets  copy_patterns on a tree with a secrets directory         *)
(*   SpecClean the clean command (main.rs: cmd_clean)                      *)
(*                                                                         *)
(* Text is a sequence of one-character strings (a name may also be cut     *)
(* into longer pieces where only equality of the pieces matters), so that  *)
(* sanitising,                                                             *)
(* trimming, splitting into lines and glob matching are computed as the    *)
(* code computes them.  A path is the sequence of its components, as       *)
(* std::path::Path::components yields them for an absolute path.           *)
(***************************************************************************)
EXTENDS Integers, Sequences, FiniteSets, TLC

VARIABLES
    dirs,        \* the directories that exist (absolute paths)
    files,       \* the regular files that exist (absolute paths)
    clonesDir,   \* paths::clones_dir(repo_root)
    prefix,      \* paths::clones_prefix(repo_root)
    rmLog,       \* what the last cmd_rm did, one record per target reached
    rmResult,    \* how the last cmd_rm ended: "none" | "ok" | "err"
    store,       \* the git config store: scope -> sequence of <<key, value>>
    spacesrc,    \* whether <repo_root>/.spacesrc exists
    gitOk,       \* whether invoking git works at all
    cfgOp,       \* the last configuration operation and its inputs
    cfgRes,      \* its result
    storeBefore, \* the store before the last configuration operation
    cp,          \* the last copy operation: inputs, log and result
    call         \* the last call of a function on its own: inputs and result

vars == <<dirs, files, clonesDir, prefix, rmLog, rmResult,
          store, spacesrc, gitOk, cfgOp, cfgRes, storeBefore, cp, call>>

fsVars  == <<dirs, files, clonesDir, prefix>>
rmVars  == <<rmLog, rmResult>>
cfgVars == <<store, spacesrc, gitOk, cfgOp, cfgRes, storeBefore>>

-----------------------------------------------------------------------------
(* Text helpers                                                            *)

Range(s) == { s[i] : i \in 1..Len(s) }

RECURSIVE Concat(_)
Concat(ss) == IF ss = <<>> THEN <<>> ELSE Head(ss) \o Concat(Tail(ss))

StartsWith(s, p) == Len(s) >= Len(p) /\ SubSeq(s, 1, Len(p)) = p

EndsWith(s, p) ==
    Len(s) >= Len(p) /\ SubSeq(s, Len(s) - Len(p) + 1, Len(s)) = p

Contains(s, p) ==
    \E i \in 1..(Len(s) - Len(p) + 1) : SubSeq(s, i, i + Len(p) - 1) = p

\* str::split(sep): the pieces between separators, empty pieces included.
RECURSIVE SplitOn(_, _)
SplitOn(s, sep) ==
    IF \A i \in 1..Len(s) : s[i] # sep
    THEN <<s>>
    ELSE LET i == CHOOSE k \in 1..Len(s) :
                     s[k] = sep /\ \A j \in 1..(k - 1) : s[j] # sep
         IN  <<SubSeq(s, 1, i - 1)>> \o SplitOn(SubSeq(s, i + 1, Len(s)), sep)

-----------------------------------------------------------------------------
(* paths.rs                                                                *)

\* The characters sanitize_branch_name replaces by '-'.
SanitizedChars == {"/", "\\", " ", ":", "*", "?", "\"", "<", ">", "|", "#"}

\* str::trim_matches(c): strip every leading and trailing c.
RECURSIVE trim_matches(_, _)
trim_matches(s, c) ==
    IF s = <<>> THEN s
    ELSE IF Head(s) = c THEN trim_matches(Tail(s), c)
    ELSE IF s[Len(s)] = c THEN trim_matches(SubSeq(s, 1, Len(s) - 1), c)
    ELSE s

sanitize_branch_name_trim_first(name) ==
    LET trimmed == trim_matches(name, "-")
    IN  [i \in 1..Len(trimmed) |->
            IF trimmed[i] \in SanitizedChars THEN "-" ELSE trimmed[i]]

sanitize_branch_name(name) ==
    trim_matches([i \in 1..Len(name) |->
                     IF name[i] \in SanitizedChars THEN "-" ELSE name[i]], "-")

-----------------------------------------------------------------------------
(* std::path and the filesystem                                            *)

DotDot == <<".", ".">>
Dot    == <<".">>
DotGit == <<".", "g", "i", "t">>

\* Path::components of a piece of text: empty components and "." are dropped,
\* ".." is kept.
Components(text) ==
    SelectSeq(SplitOn(text, "/"), LAMBDA c : c # <<>> /\ c # Dot)

\* Path::join: an absolute right-hand side replaces the left-hand side.
PathJoin(base, text) ==
    IF text # <<>> /\ Head(text) = "/" THEN Components(text)
    ELSE base \o Components(text)

\* Path::starts_with: a comparison of whole components, nothing is resolved.
PathStartsWith(path, base) ==
    Len(path) >= Len(base) /\ SubSeq(path, 1, Len(base)) = base

Parent(p) == IF p = <<>> THEN <<>> ELSE SubSeq(p, 1, Len(p) - 1)

Unresolved == <<<<"?">>>>

\* What the operating system makes of a path: ".." steps to the parent of the
\* directory reached so far, which has to exist.
RECURSIVE ResolveFrom(_, _, _)
ResolveFrom(ds, cur, rest) ==
    IF rest = <<>> THEN cur
    ELSE IF cur \notin ds THEN Unresolved
    ELSE IF Head(rest) = DotDot THEN ResolveFrom(ds, Parent(cur), Tail(rest))
    ELSE ResolveFrom(ds, Append(cur, Head(rest)), Tail(rest))

Resolve(ds, path) == ResolveFrom(ds, <<>>, path)

IsDir(ds, path)      == Resolve(ds, path) \in ds
Exists(ds, fs, path) == Resolve(ds, path) \in ds \cup fs

\* p lies strictly below directory d.
StrictlyUnder(d, p) == Len(p) > Len(d) /\ SubSeq(p, 1, Len(d)) = d

\* std::fs::remove_dir_all(path): the directory's entries are removed, then the
\* directory itself with rmdir(path); rmdir refuses a path whose last component
\* is "..", so that directory stays and the call returns an error.
RemoveDirAllKeepsRoot(path) == path = <<>> \/ path[Len(path)] = DotDot

RemovedBy(ds, path, e) ==
    LET r == Resolve(ds, path)
    IN  StrictlyUnder(r, e) \/ (e = r /\ ~RemoveDirAllKeepsRoot(path))

-----------------------------------------------------------------------------
(* targets.rs                                                               *)

R == <<"r">>
C == <<"c">>

\* paths::repo_root(): the main repository.
RepoRoot == <<R>>

MainId == <<"1">>

NotFound == [found |-> FALSE, is_main |-> FALSE, path |-> <<>>, name |-> <<>>]

resolve_target_dir_first(ds, identifier, clones_dir, pfx) ==
    LET direct == PathJoin(clones_dir, pfx \o sanitize_branch_name(identifier))
    IN  IF IsDir(ds, direct)
        THEN [found |-> TRUE, is_main |-> FALSE, path |-> direct,
              name |-> identifier]
        ELSE IF identifier = MainId
        THEN [found |-> TRUE, is_main |-> TRUE, path |-> RepoRoot,
              name |-> <<"m", "a", "i", "n">>]
        ELSE NotFound

resolve_target_sanitized_name(ds, identifier, clones_dir, pfx) ==
    IF identifier = MainId
    THEN [found |-> TRUE, is_main |-> TRUE, path |-> RepoRoot,
          name |-> <<"m", "a", "i", "n">>]
    ELSE LET sanitized == sanitize_branch_name(identifier)
             direct    == PathJoin(clones_dir, pfx \o sanitized)
         IN  IF IsDir(ds, direct)
             THEN [found |-> TRUE, is_main |-> FALSE, path |-> direct,
                   name |-> sanitized]
             ELSE NotFound

resolve_target(ds, identifier, clones_dir, pfx) ==
    IF identifier = MainId
    THEN [found |-> TRUE, is_main |-> TRUE, path |-> RepoRoot,
          name |-> <<"m", "a", "i", "n">>]
    ELSE LET sanitized == sanitize_branch_name(identifier)
             direct    == PathJoin(clones_dir, pfx \o sanitized)
         IN  IF IsDir(ds, direct)
             THEN [found |-> TRUE, is_main |-> FALSE, path |-> direct,
                   name |-> identifier]
             ELSE NotFound

-----------------------------------------------------------------------------
(* main.rs: safe_remove_clone and cmd_rm                                   *)

\* The first check of safe_remove_clone.
InsideClonesDir(path, clones_dir) == PathStartsWith(path, clones_dir)

\* The second check of safe_remove_clone.
HasGitMarker(ds, fs, path) == Exists(ds, fs, Append(path, DotGit))

\* safe_remove_clone(path, clones_dir) on the filesystem <<ds, fs>>.
safe_remove_clone(ds, fs, path, clones_dir) ==
    IF ~InsideClonesDir(path, clones_dir)
    THEN [outcome |-> "refused_outside", dirs |-> ds, files |-> fs]
    ELSE IF ~HasGitMarker(ds, fs, path)
    THEN [outcome |-> "refused_nongit", dirs |-> ds, files |-> fs]
    ELSE [outcome |-> IF RemoveDirAllKeepsRoot(path)
                      THEN "remove_failed" ELSE "removed",
          dirs    |-> { d \in ds : ~RemovedBy(ds, path, d) },
          files   |-> { f \in fs : ~RemovedBy(ds, path, f) }]

\* The calls the body of cmd_rm's loop made for one target, in the order of
\* the code: run_hooks("preRemove"), safe_remove_clone, run_hooks("postRemove").
RmSteps(outcome, pre, post) ==
    (IF pre # "not_run" THEN <<"preRemove">> ELSE <<>>)
    \o (IF outcome \in {"removed", "remove_failed", "refused_outside",
                        "refused_nongit"}
        THEN <<"safe_remove_clone">> ELSE <<>>)
    \o (IF post # "not_run" THEN <<"postRemove">> ELSE <<>>)

\* What cmd_rm did with one target: the path resolve_target gave, the directory
\* that path denotes and whether it holds .git (both at the time the target was
\* reached), how the target ended, the hooks run, and the entries removed.
RmEvent(ds, fs, id, t, outcome, pre, post, gone) ==
    [id |-> id, path |-> t.path, real |-> Resolve(ds, t.path),
     git |-> HasGitMarker(ds, fs, t.path), outcome |-> outcome,
     pre |-> pre, post |-> post, removed |-> gone,
     steps |-> RmSteps(outcome, pre, post)]

\* if let Err(err) = run_hooks("preRemove", ...) { if !args.force { continue } }
PreRemoveAbortsDespiteForce(preFails, force) == preFails

PreRemoveAborts(preFails, force) == preFails /\ ~force

\* The loop of cmd_rm over the targets still to process.  pre and post say
\* whether run_hooks("preRemove") and run_hooks("postRemove") return an error.
RECURSIVE RmLoop(_, _, _, _, _, _, _)
RmLoop(ds, fs, targets, force, preFails, postFails, log) ==
    IF targets = <<>>
    THEN [dirs |-> ds, files |-> fs, log |-> log, result |-> "ok"]
    ELSE
      LET id   == Head(targets)
          t    == resolve_target(ds, id, clonesDir, prefix)
          pre  == IF preFails THEN "failed" ELSE "ok"
          post == IF postFails THEN "failed" ELSE "ok"
      IN
      IF ~t.found
      THEN [dirs |-> ds, files |-> fs, result |-> "err",
            log |-> Append(log, RmEvent(ds, fs, id, t, "not_found", "not_run", "not_run", {}))]
      ELSE IF t.is_main
      THEN RmLoop(ds, fs, Tail(targets), force, preFails, postFails,
                  Append(log, RmEvent(ds, fs, id, t, "main_skipped", "not_run", "not_run", {})))
      ELSE IF PreRemoveAborts(preFails, force)
      THEN RmLoop(ds, fs, Tail(targets), force, preFails, postFails,
                  Append(log, RmEvent(ds, fs, id, t, "hook_aborted", pre, "not_run", {})))
      ELSE
        LET r    == safe_remove_clone(ds, fs, t.path, clonesDir)
            gone == (ds \ r.dirs) \cup (fs \ r.files)
        IN  IF r.outcome = "removed"
            THEN RmLoop(r.dirs, r.files, Tail(targets), force, preFails, postFails,
                        Append(log, RmEvent(ds, fs, id, t, r.outcome, pre, post, gone)))
            ELSE [dirs |-> r.dirs, files |-> r.files, result |-> "err",
                  log |-> Append(log, RmEvent(ds, fs, id, t, r.outcome, pre, "not_run", gone))]

cmd_rm(targets, force, preFails, postFails) ==
    IF targets = <<>>
    THEN [dirs |-> dirs, files |-> files, log |-> <<>>, result |-> "err"]
    ELSE RmLoop(dirs, files, targets, force, preFails, postFails, <<>>)

-----------------------------------------------------------------------------
(* git.rs and the git config store                                         *)

\* The four places a value can come from, narrowest first.  "file" is
\* <repo_root>/.spacesrc, read with `git config -f`; the other three are git's
\* own --local, --global and --system files.
Sources == <<"local", "file", "global", "system">>

None    == [some |-> FALSE, v |-> <<>>]
Some(v) == [some |-> TRUE, v |-> v]

IsWhitespace(c) == c \in {" ", "\n", "\t", "\r"}

\* str::trim
RECURSIVE Trim(_)
Trim(s) ==
    IF s = <<>> THEN s
    ELSE IF IsWhitespace(Head(s)) THEN Trim(Tail(s))
    ELSE IF IsWhitespace(s[Len(s)]) THEN Trim(SubSeq(s, 1, Len(s) - 1))
    ELSE s

\* str::lines: split at "\n"; a line's trailing "\r" is dropped, and so is the
\* empty piece after a final "\n".
Lines(text) ==
    LET pieces == SplitOn(text, "\n")
        kept   == IF pieces[Len(pieces)] = <<>>
                  THEN SubSeq(pieces, 1, Len(pieces) - 1) ELSE pieces
    IN  [i \in 1..Len(kept) |->
            IF kept[i] # <<>> /\ kept[i][Len(kept[i])] = "\r"
            THEN SubSeq(kept[i], 1, Len(kept[i]) - 1) ELSE kept[i]]

\* git_stdout_opt: ok is the exit status of the command, out its stdout.
git_stdout_opt(ok, out) ==
    IF ~ok THEN None
    ELSE LET text == Trim(out)
         IN  IF text = <<>> THEN None ELSE Some(text)

\* The values of key in one source, in file order.
ValuesOf(st, src, key) ==
    LET hits == SelectSeq(st[src], LAMBDA e : e[1] = key)
    IN  [i \in 1..Len(hits) |-> hits[i][2]]

\* `git config <scope> --get-all <key>`: one value per line; exit status 1
\* when the key has no value.
GitGetAll(st, src, key) ==
    LET vs == ValuesOf(st, src, key)
    IN  [ok  |-> gitOk /\ vs # <<>>,
         out |-> Concat([i \in 1..Len(vs) |-> vs[i] \o <<"\n">>])]

\* `git config [<scope>] --get <key>`: the last value; without a scope flag
\* git reads system, global, local in this order and the last value wins.
GitGet(st, scope, key) ==
    LET vs == IF scope = "auto"
              THEN ValuesOf(st, "system", key) \o ValuesOf(st, "global", key)
                       \o ValuesOf(st, "local", key)
              ELSE ValuesOf(st, scope, key)
    IN  [ok  |-> gitOk /\ vs # <<>>,
         out |-> IF vs = <<>> THEN <<>> ELSE vs[Len(vs)] \o <<"\n">>]

\* The keys `--get-regexp "^spaces\."` selects.
IsSpacesKey(key) == key # <<>> /\ Head(key) = "spaces."

\* `git config <scope> --get-regexp "^spaces\."`: a line "<key> <value>" for
\* every entry of the namespace; exit status 1 when there is none.
GitGetRegexp(st, src) ==
    LET hits == SelectSeq(st[src], LAMBDA e : IsSpacesKey(e[1]))
    IN  [ok  |-> gitOk /\ hits # <<>>,
         out |-> Concat([i \in 1..Len(hits) |->
                            hits[i][1] \o <<" ">> \o hits[i][2] \o <<"\n">>])]

-----------------------------------------------------------------------------
(* config.rs: reading                                                      *)

git_config_get(st, key, scope) ==
    LET g == GitGet(st, scope, key) IN git_stdout_opt(g.ok, g.out)

git_config_get_all(st, key, scope) ==
    LET g == GitGetAll(st, scope, key)
        o == git_stdout_opt(g.ok, g.out)
    IN  IF o.some THEN Lines(o.v) ELSE <<>>

git_config_file_get_all(st, key, fileExists) ==
    IF ~fileExists THEN <<>>
    ELSE LET g == GitGetAll(st, "file", key)
             o == git_stdout_opt(g.ok, g.out)
         IN  IF o.some THEN Lines(o.v) ELSE <<>>

\* The loop `for value in values { if seen.insert(value) { out.push(value) } }`.
RECURSIVE PushUnseen(_, _)
PushUnseen(out, values) ==
    IF values = <<>> THEN out
    ELSE PushUnseen(IF Head(values) \in Range(out) THEN out
                    ELSE Append(out, Head(values)), Tail(values))

\* The order in which cfg_get_all(Auto) reads the four sources.
AutoOrder == <<"local", "file", "global", "system">>

SourceValues(st, key, src, fileExists) ==
    IF src = "file" THEN git_config_file_get_all(st, key, fileExists)
    ELSE git_config_get_all(st, key, src)

cfg_get_all(st, key, scope, fileExists) ==
    IF scope # "auto" THEN git_config_get_all(st, key, scope)
    ELSE PushUnseen(PushUnseen(PushUnseen(PushUnseen(<<>>,
             SourceValues(st, key, AutoOrder[1], fileExists)),
             SourceValues(st, key, AutoOrder[2], fileExists)),
             SourceValues(st, key, AutoOrder[3], fileExists)),
             SourceValues(st, key, AutoOrder[4], fileExists))

\* cfg_default(key, env_name, fallback, file_key): env is the value of the
\* environment variable env_name, NoValue when it is not set.
NoValue == <<"<unset>">>

\* Result<String>
Ok(v) == [ok |-> TRUE, v |-> v]

\* The same, the environment variable's value returned without looking at it.
cfg_default_env_unchecked(st, key, env_name, fallback, file_key, env, fileExists) ==
    LET local  == git_config_get(st, key, "local")
        fvals  == git_config_file_get_all(st,
                      IF file_key.some THEN file_key.v ELSE key, fileExists)
        auto   == git_config_get(st, key, "auto")
    IN  IF local.some /\ local.v # <<>> THEN Ok(local.v)
        ELSE IF fvals # <<>> /\ fvals[1] # <<>> THEN Ok(fvals[1])
        ELSE IF auto.some /\ auto.v # <<>> THEN Ok(auto.v)
        ELSE IF env_name # <<>> /\ env # NoValue THEN Ok(env)
        ELSE Ok(fallback)

\* The same, the environment variable consulted before git's own resolution.
cfg_default_env_first(st, key, env_name, fallback, file_key, env, fileExists) ==
    LET local  == git_config_get(st, key, "local")
        fvals  == git_config_file_get_all(st,
                      IF file_key.some THEN file_key.v ELSE key, fileExists)
        auto   == git_config_get(st, key, "auto")
    IN  IF local.some /\ local.v # <<>> THEN Ok(local.v)
        ELSE IF fvals # <<>> /\ fvals[1] # <<>> THEN Ok(fvals[1])
        ELSE IF env_name # <<>> /\ env # NoValue /\ env # <<>> THEN Ok(env)
        ELSE IF auto.some /\ auto.v # <<>> THEN Ok(auto.v)
        ELSE Ok(fallback)

cfg_default(st, key, env_name, fallback, file_key, env, fileExists) ==
    LET local  == git_config_get(st, key, "local")
        fvals  == git_config_file_get_all(st,
                      IF file_key.some THEN file_key.v ELSE key, fileExists)
        auto   == git_config_get(st, key, "auto")
    IN  IF local.some /\ local.v # <<>> THEN Ok(local.v)
        ELSE IF fvals # <<>> /\ fvals[1] # <<>> THEN Ok(fvals[1])
        ELSE IF auto.some /\ auto.v # <<>> THEN Ok(auto.v)
        ELSE IF env_name # <<>> /\ env # NoValue /\ env # <<>> THEN Ok(env)
        ELSE Ok(fallback)

\* The sources cfg_list(Auto) reads, in order, each with its label.
\* The same, .spacesrc read after git's global file.
ListOrderFileLate == <<"local", "global", "file", "system">>

ListOrder == <<"local", "file", "global", "system">>

Label(src) ==
    CASE src = "local"  -> <<" ", "[local]">>
      [] src = "file"   -> <<" ", "[.spacesrc]">>
      [] src = "global" -> <<" ", "[global]">>
      [] src = "system" -> <<" ", "[system]">>

\* The lines one source contributes to a listing.
ListedLines(st, src, fileExists) ==
    IF src = "file" /\ ~fileExists THEN <<>>
    ELSE LET g == GitGetRegexp(st, src)
             o == git_stdout_opt(g.ok, g.out)
         IN  IF o.some THEN Lines(o.v) ELSE <<>>

\* The loop `if seen.insert(line) { lines.push(format!("{line} [{label}]")) }`
\* over the lines of one source; acc is [seen, lines].
RECURSIVE PushLabelled(_, _, _)
PushLabelled(acc, src, ls) ==
    IF ls = <<>> THEN acc
    ELSE PushLabelled(
            IF Head(ls) \in acc.seen THEN acc
            ELSE [seen  |-> acc.seen \cup {Head(ls)},
                  lines |-> Append(acc.lines, Head(ls) \o Label(src))],
            src, Tail(ls))

cfg_list(st, scope, fileExists) ==
    IF scope # "auto" THEN ListedLines(st, scope, TRUE)
    ELSE LET a0 == [seen |-> {}, lines |-> <<>>]
             a1 == PushLabelled(a0, ListOrder[1], ListedLines(st, ListOrder[1], fileExists))
             a2 == PushLabelled(a1, ListOrder[2], ListedLines(st, ListOrder[2], fileExists))
             a3 == PushLabelled(a2, ListOrder[3], ListedLines(st, ListOrder[3], fileExists))
             a4 == PushLabelled(a3, ListOrder[4], ListedLines(st, ListOrder[4], fileExists))
         IN  a4.lines

-----------------------------------------------------------------------------
(* config.rs: writing                                                      *)

\* The file a scope flag makes git write: without a flag git writes --local.
ScopeFile(scope) == IF scope = "auto" THEN "local" ELSE scope

CountOf(st, src, key) == Len(SelectSeq(st[src], LAMBDA e : e[1] = key))

\* `git config <scope> <key> <value>`: sets the key's single value; git refuses
\* (exit status 5) to overwrite a key that has several values.
GitSet(st, src, key, value) ==
    IF ~gitOk \/ CountOf(st, src, key) > 1 THEN [ok |-> FALSE, store |-> st]
    ELSE IF CountOf(st, src, key) = 0
    THEN [ok |-> TRUE, store |-> [st EXCEPT ![src] = Append(@, <<key, value>>)]]
    ELSE [ok |-> TRUE,
          store |-> [st EXCEPT ![src] =
                       [i \in 1..Len(@) |->
                           IF @[i][1] = key THEN <<key, value>> ELSE @[i]]]]

\* `git config <scope> --add <key> <value>`
GitAdd(st, src, key, value) ==
    IF ~gitOk THEN [ok |-> FALSE, store |-> st]
    ELSE [ok |-> TRUE, store |-> [st EXCEPT ![src] = Append(@, <<key, value>>)]]

\* `git config <scope> --unset-all <key>`: exit status 5 when there is nothing
\* to unset.
GitUnsetAll(st, src, key) ==
    IF ~gitOk \/ CountOf(st, src, key) = 0 THEN [ok |-> FALSE, store |-> st]
    ELSE [ok |-> TRUE,
          store |-> [st EXCEPT ![src] = SelectSeq(@, LAMBDA e : e[1] # key)]]

cfg_set(st, key, value, scope) == GitSet(st, ScopeFile(scope), key, value)

cfg_add(st, key, value, scope) == GitAdd(st, ScopeFile(scope), key, value)

\* cfg_unset drops git's exit status: it always returns Ok.
cfg_unset(st, key, scope) ==
    [ok |-> TRUE, store |-> GitUnsetAll(st, ScopeFile(scope), key).store]

-----------------------------------------------------------------------------
(* main.rs: cmd_config                                                     *)

ScopeWords  == { <<"--global">>, <<"global">>, <<"--local">>, <<"local">>,
                 <<"--system">>, <<"system">> }
ActionWords == { <<"get">>, <<"set">>, <<"unset">>, <<"add">>, <<"list">> }

ScopeOfWord(arg) ==
    CASE arg \in {<<"--global">>, <<"global">>} -> "global"
      [] arg \in {<<"--local">>, <<"local">>}   -> "local"
      [] arg \in {<<"--system">>, <<"system">>} -> "system"

ParseStart == [scope |-> "auto", action |-> None, key |-> None, value |-> None,
               extras |-> <<>>]

\* The argument loop of cmd_config.
RECURSIVE ParseArgs(_, _)
ParseArgs(p, args) ==
    IF args = <<>> THEN p
    ELSE LET arg == Head(args)
             q == IF arg \in ScopeWords THEN [p EXCEPT !.scope = ScopeOfWord(arg)]
                  ELSE IF arg \in ActionWords THEN [p EXCEPT !.action = Some(arg[1])]
                  ELSE IF ~p.key.some THEN [p EXCEPT !.key = Some(arg)]
                  ELSE IF ~p.value.some /\ p.action.some /\ p.action.v \in {"set", "add"}
                       THEN [p EXCEPT !.value = Some(arg)]
                  ELSE [p EXCEPT !.extras = Append(@, arg)]
         IN  ParseArgs(q, Tail(args))

WriteActions == {"set", "add", "unset"}

\* The check of cmd_config that refuses writes to the system scope.
\* The same check, unset forgotten.
SystemWriteRefusedSetAddOnly(scope, action) ==
    scope = "system" /\ action \in {"set", "add"}

SystemWriteRefused(scope, action) == scope = "system" /\ action \in WriteActions

\* The scope a write goes to.
ResolvedScope(scope) == IF scope = "auto" THEN "local" ELSE scope

CfgOut(p, action, result, st, out) ==
    [op |-> "cmd_config", scope |-> p.scope, action |-> action, key |-> p.key,
     value |-> p.value, result |-> result, store |-> st, out |-> out]

cmd_config(st, args, fileExists) ==
    LET p      == ParseArgs(ParseStart, args)
        action == IF p.action.some THEN p.action.v
                  ELSE IF ~p.key.some THEN "list" ELSE "get"
    IN  IF SystemWriteRefused(p.scope, action)
        THEN CfgOut(p, action, "err_system", st, <<>>)
        ELSE CASE action = "get" ->
                    IF ~p.key.some THEN CfgOut(p, action, "err_usage", st, <<>>)
                    ELSE CfgOut(p, action, "ok", st,
                                cfg_get_all(st, p.key.v, p.scope, fileExists))
               [] action = "set" ->
                    IF ~p.key.some \/ ~p.value.some
                    THEN CfgOut(p, action, "err_usage", st, <<>>)
                    ELSE LET w == cfg_set(st, p.key.v, p.value.v, ResolvedScope(p.scope))
                         IN  CfgOut(p, action, IF w.ok THEN "ok" ELSE "err_git",
                                    w.store, <<>>)
               [] action = "add" ->
                    IF ~p.key.some \/ ~p.value.some
                    THEN CfgOut(p, action, "err_usage", st, <<>>)
                    ELSE LET w == cfg_add(st, p.key.v, p.value.v, ResolvedScope(p.scope))
                         IN  CfgOut(p, action, IF w.ok THEN "ok" ELSE "err_git",
                                    w.store, <<>>)
               [] action = "unset" ->
                    IF ~p.key.some THEN CfgOut(p, action, "err_usage", st, <<>>)
                    ELSE LET w == cfg_unset(st, p.key.v, ResolvedScope(p.scope))
                         IN  CfgOut(p, action, "ok", w.store, <<>>)
               [] action = "list" ->
                    CfgOut(p, action, "ok", st, cfg_list(st, p.scope, fileExists))

-----------------------------------------------------------------------------
(* hooks.rs: run_hooks                                                     *)

\* The config key of a phase's hooks.
HookKey(phase) == <<"spaces.", "hook.", phase>>

\* How running one hook with `sh -c` ends: exit status zero, exit status not
\* zero, or the shell could not be started (cmd.status() is an Err).
HookOutcomes == {"ok", "fail", "nospawn"}

HooksDone(ran, failed) ==
    [ran |-> ran, failed |-> failed,
     result |-> IF failed > 0 THEN "err_failed" ELSE "ok"]

RECURSIVE run_hooks_loop_stops_at_failure(_, _, _, _, _)
run_hooks_loop_stops_at_failure(hooks, status, i, ran, failed) ==
    IF i > Len(hooks) \/ failed > 0 THEN HooksDone(ran, failed)
    ELSE IF Trim(hooks[i]) = <<>>
    THEN run_hooks_loop_stops_at_failure(hooks, status, i + 1, ran, failed)
    ELSE IF status[i] = "nospawn"
    THEN [ran |-> ran, failed |-> failed, result |-> "err_spawn"]
    ELSE run_hooks_loop_stops_at_failure(hooks, status, i + 1,
             Append(ran, [idx |-> i, hook |-> hooks[i], status |-> status[i]]),
             IF status[i] = "fail" THEN failed + 1 ELSE failed)

\* The loop of run_hooks from the i-th hook on; status[i] is how hook i ends.
RECURSIVE run_hooks_loop(_, _, _, _, _)
run_hooks_loop(hooks, status, i, ran, failed) ==
    IF i > Len(hooks) THEN HooksDone(ran, failed)
    ELSE IF Trim(hooks[i]) = <<>>
    THEN run_hooks_loop(hooks, status, i + 1, ran, failed)
    ELSE IF status[i] = "nospawn"
    THEN [ran |-> ran, failed |-> failed, result |-> "err_spawn"]
    ELSE run_hooks_loop(hooks, status, i + 1,
                        Append(ran, [idx |-> i, hook |-> hooks[i],
                                     status |-> status[i]]),
                        IF status[i] = "fail" THEN failed + 1 ELSE failed)

run_hooks(st, phase, fileExists, status) ==
    LET hooks == cfg_get_all(st, HookKey(phase), "auto", fileExists)
    IN  IF hooks = <<>> THEN HooksDone(<<>>, 0)
        ELSE run_hooks_loop(hooks, status, 1, <<>>, 0)

-----------------------------------------------------------------------------
(* targets.rs: current_branch and the branch of a target                   *)

HEAD     == <<"H", "E", "A", "D">>
Detached == <<"(", "d", "e", "t", "a", "c", "h", "e", "d", ")">>

\* What HEAD of a working copy is: on a branch, detached, or not to be had
\* (git fails there).
OnBranch(name) == [kind |-> "branch", name |-> name]
DetachedHead   == [kind |-> "detached", name |-> <<>>]
NoHead         == [kind |-> "failed", name |-> <<>>]

\* `git branch --show-current`: the branch, or nothing when HEAD is detached;
\* a git that does not know the option fails.
BranchShowCurrent(head, supported) ==
    IF ~supported \/ head.kind = "failed" THEN [ok |-> FALSE, out |-> <<>>]
    ELSE IF head.kind = "branch" THEN [ok |-> TRUE, out |-> head.name \o <<"\n">>]
    ELSE [ok |-> TRUE, out |-> <<"\n">>]

\* `git rev-parse --abbrev-ref HEAD`: the branch, or HEAD when detached.
RevParseAbbrevRef(head) ==
    IF head.kind = "failed" THEN [ok |-> FALSE, out |-> <<>>]
    ELSE IF head.kind = "branch" THEN [ok |-> TRUE, out |-> head.name \o <<"\n">>]
    ELSE [ok |-> TRUE, out |-> HEAD \o <<"\n">>]

current_branch_head_kept(head, supported) ==
    LET first  == BranchShowCurrent(head, supported)
        second == RevParseAbbrevRef(head)
        shown  == git_stdout_opt(first.ok, first.out)
    IN  IF shown.some THEN shown ELSE git_stdout_opt(second.ok, second.out)

current_branch(head, supported) ==
    LET first  == BranchShowCurrent(head, supported)
        second == RevParseAbbrevRef(head)
        shown  == git_stdout_opt(first.ok, first.out)
        branch == IF shown.some THEN shown
                  ELSE git_stdout_opt(second.ok, second.out)
    IN  IF branch.some /\ branch.v = HEAD THEN Some(Detached)
        ELSE IF branch.some /\ branch.v # <<>> THEN branch
        ELSE None

\* resolve_target's result as its caller sees it: the target with its branch,
\* or the error with the identifier it names.
TargetResult(ds, identifier, clones_dir, pfx, head, supported) ==
    LET t == resolve_target(ds, identifier, clones_dir, pfx)
        b == current_branch(head, supported)
    IN  IF t.found
        THEN [found |-> TRUE, is_main |-> t.is_main, path |-> t.path,
              name |-> t.name, branch |-> IF b.some THEN b.v ELSE Detached,
              error |-> <<>>]
        ELSE [found |-> FALSE, is_main |-> FALSE, path |-> <<>>,
              name |-> <<>>, branch |-> <<>>, error |-> identifier]

-----------------------------------------------------------------------------
(* copy.rs: patterns, glob expansion and the filesystem calls              *)

is_unsafe_pattern_parent_prefix_unchecked(pattern) ==
    \/ (pattern # <<>> /\ Head(pattern) = "/")
    \/ pattern = DotDot
    \/ Contains(pattern, <<"/", ".", ".", "/">>)
    \/ EndsWith(pattern, <<"/", ".", ".">>)

is_unsafe_pattern(pattern) ==
    \/ (pattern # <<>> /\ Head(pattern) = "/")
    \/ pattern = DotDot
    \/ StartsWith(pattern, <<".", ".", "/">>)
    \/ Contains(pattern, <<"/", ".", ".", "/">>)
    \/ EndsWith(pattern, <<"/", ".", ".">>)

\* glob::Pattern::matches_with under the options copy.rs passes
\* (require_literal_separator and require_literal_leading_dot both false):
\* '*' matches any run of characters, '/' included, '?' any one character.
\* Character classes and '**' are not modelled; no pattern below uses them.
RECURSIVE GlobMatches(_, _)
GlobMatches(pat, text) ==
    IF pat = <<>> THEN text = <<>>
    ELSE IF Head(pat) = "*"
    THEN GlobMatches(Tail(pat), text)
           \/ (text # <<>> /\ GlobMatches(pat, Tail(text)))
    ELSE /\ text # <<>>
         /\ (Head(pat) = "?" \/ Head(pat) = Head(text))
         /\ GlobMatches(Tail(pat), Tail(text))

\* A pattern component without metacharacters.
IsLiteral(comp) == \A i \in 1..Len(comp) : comp[i] \notin {"*", "?", "["}

\* Path::to_string_lossy of a relative path.
RECURSIVE PathText(_)
PathText(comps) ==
    IF comps = <<>> THEN <<>>
    ELSE IF Len(comps) = 1 THEN Head(comps)
    ELSE Head(comps) \o <<"/">> \o PathText(Tail(comps))

\* The names an entry can have, in the order read_dir's entries are sorted by
\* glob (byte order).
NameOrder == << <<"a">>, <<"c">>, <<"d">>, <<"dev", ".yaml">>, <<"f">>, <<"g">>,
               <<"key", ".txt">>, <<"prod", ".yaml">>, <<"r">>, <<"secrets">>,
               <<"x">> >>

\* glob::glob_with below `path`, for the pattern components still to match
\* (glob's fill_todo and Paths::next).  A literal component is followed without
\* reading the directory: ".." whenever `path` is a directory, a name whenever
\* it exists.  A component with metacharacters is matched against the entries
\* of the directory, in name order.
RECURSIVE Expand(_, _, _, _)
RECURSIVE ExpandChildren(_, _, _, _, _)
Expand(ds, fs, path, comps) ==
    IF comps = <<>> THEN <<path>>
    ELSE LET c == Head(comps)
         IN  IF IsLiteral(c)
             THEN IF c = DotDot
                  THEN IF IsDir(ds, path)
                       THEN Expand(ds, fs, Append(path, c), Tail(comps))
                       ELSE <<>>
                  ELSE IF Exists(ds, fs, Append(path, c))
                       THEN Expand(ds, fs, Append(path, c), Tail(comps))
                       ELSE <<>>
             ELSE IF IsDir(ds, path)
                  THEN ExpandChildren(ds, fs, path, comps, 1)
                  ELSE <<>>

ExpandChildren(ds, fs, path, comps, i) ==
    IF i > Len(NameOrder) THEN <<>>
    ELSE LET child == Append(path, NameOrder[i])
         IN  (IF Exists(ds, fs, child) /\ GlobMatches(Head(comps), NameOrder[i])
              THEN Expand(ds, fs, child, Tail(comps))
              ELSE <<>>)
               \o ExpandChildren(ds, fs, path, comps, i + 1)

\* pattern.strip_prefix("./").unwrap_or(pattern)
StripDotSlash(pattern) ==
    IF StartsWith(pattern, <<".", "/">>) THEN SubSeq(pattern, 3, Len(pattern))
    ELSE pattern

\* glob_with(src_root.join(normalized)): the components of src_root are
\* literal and exist, so the expansion starts at the root of the filesystem.
glob_with(ds, fs, src_root, normalized) ==
    Expand(ds, fs, <<>>, PathJoin(src_root, normalized))

\* std::fs::create_dir_all: every missing directory on the way is created; a
\* regular file in the way is an error.
RECURSIVE MkdirFrom(_, _, _, _)
MkdirFrom(ds, fs, cur, rest) ==
    IF rest = <<>> THEN [ok |-> TRUE, dirs |-> ds]
    ELSE IF Head(rest) = DotDot
    THEN IF cur \in ds THEN MkdirFrom(ds, fs, Parent(cur), Tail(rest))
         ELSE [ok |-> FALSE, dirs |-> ds]
    ELSE LET nxt == Append(cur, Head(rest))
         IN  IF nxt \in fs THEN [ok |-> FALSE, dirs |-> ds]
             ELSE MkdirFrom(ds \cup {nxt}, fs, nxt, Tail(rest))

create_dir_all(ds, fs, path) == MkdirFrom(ds, fs, <<>>, path)

\* std::fs::copy(src, dest): dest must not be a directory and its parent must
\* exist; the file at dest is created or overwritten.
fs_copy(ds, fs, dest) ==
    LET r == Resolve(ds, dest)
    IN  IF r = Unresolved \/ r \in ds \/ Parent(r) \notin ds
        THEN [ok |-> FALSE, files |-> fs]
        ELSE [ok |-> TRUE, files |-> fs \cup {r}]

\* The exclude patterns kept by copy_patterns and copy_directories.
exclude_patterns(excludes) ==
    SelectSeq(excludes, LAMBDA p : ~is_unsafe_pattern(p))

\* exclude_patterns.iter().any(|pat| pat.matches_path_with(rel, options))
Excluded(patterns, rel) ==
    \E i \in 1..Len(patterns) : GlobMatches(patterns[i], PathText(rel))

\* path.strip_prefix(base): whole components, nothing is resolved.
StripPrefix(path, base) == SubSeq(path, Len(base) + 1, Len(path))

-----------------------------------------------------------------------------
(* copy.rs: copy_patterns                                                  *)

\* The running state of a copy: the filesystem, the relative paths seen, one
\* event per candidate selected, the paths every expanded pattern yielded, the
\* count and whether a filesystem call failed.
CopyStart(ds, fs) ==
    [dirs |-> ds, files |-> fs, seen |-> {}, events |-> <<>>,
     globbed |-> <<>>, copied |-> 0, result |-> "ok"]

CopyEvent(i, pattern, path, rel, dest) ==
    [idx |-> i, pattern |-> pattern, src |-> path, rel |-> rel, dest |-> dest]

\* The body of the loop over the paths one include pattern expands to.
RECURSIVE CopyEntries(_, _, _, _)
CopyEntries(cx, acc, i, paths) ==
    IF paths = <<>> \/ acc.result = "err" THEN acc
    ELSE
      LET path == Head(paths)
          rel  == StripPrefix(path, cx.src_root)
          dest == cx.dst_root \o rel
      IN
      IF Resolve(acc.dirs, path) \notin acc.files
      THEN CopyEntries(cx, acc, i, Tail(paths))
      ELSE IF ~PathStartsWith(path, cx.src_root)
      THEN CopyEntries(cx, acc, i, Tail(paths))
      ELSE IF Excluded(cx.excludes, rel)
      THEN CopyEntries(cx, acc, i, Tail(paths))
      ELSE IF rel \in acc.seen
      THEN CopyEntries(cx, acc, i, Tail(paths))
      ELSE
        LET seen   == acc.seen \cup {rel}
            events == Append(acc.events,
                             CopyEvent(i, cx.includes[i], path, rel, dest))
        IN
        IF cx.dry_run
        THEN CopyEntries(cx, [acc EXCEPT !.seen = seen, !.events = events,
                                         !.copied = @ + 1],
                         i, Tail(paths))
        ELSE
          LET made == create_dir_all(acc.dirs, acc.files, Parent(dest))
              done == fs_copy(made.dirs, acc.files, dest)
          IN  IF ~made.ok
              THEN [acc EXCEPT !.seen = seen, !.result = "err"]
              ELSE IF ~done.ok
              THEN [acc EXCEPT !.seen = seen, !.dirs = made.dirs, !.result = "err"]
              ELSE CopyEntries(cx, [acc EXCEPT !.seen = seen, !.events = events,
                                               !.dirs = made.dirs,
                                               !.files = done.files,
                                               !.copied = @ + 1],
                               i, Tail(paths))

\* The loop over the include patterns, from the i-th on.
RECURSIVE CopyIncludesUnsafeFatal(_, _, _)
CopyIncludesUnsafeFatal(cx, acc, i) ==
    IF i > Len(cx.includes) \/ acc.result = "err" THEN acc
    ELSE IF is_unsafe_pattern(cx.includes[i])
    THEN [acc EXCEPT !.result = "err"]
    ELSE LET paths == glob_with(acc.dirs, acc.files, cx.src_root,
                                StripDotSlash(cx.includes[i]))
             found == [acc EXCEPT !.globbed =
                           Append(@, [idx |-> i, paths |-> paths])]
         IN  CopyIncludesUnsafeFatal(cx, CopyEntries(cx, found, i, paths), i + 1)

RECURSIVE CopyIncludes(_, _, _)
CopyIncludes(cx, acc, i) ==
    IF i > Len(cx.includes) \/ acc.result = "err" THEN acc
    ELSE IF is_unsafe_pattern(cx.includes[i])
    THEN CopyIncludes(cx, acc, i + 1)
    ELSE LET paths == glob_with(acc.dirs, acc.files, cx.src_root,
                                StripDotSlash(cx.includes[i]))
             found == [acc EXCEPT !.globbed =
                           Append(@, [idx |-> i, paths |-> paths])]
         IN  CopyIncludes(cx, CopyEntries(cx, found, i, paths), i + 1)

copy_patterns(ds, fs, src_root, dst_root, includes, excludes, dry_run) ==
    IF includes = <<>> THEN CopyStart(ds, fs)
    ELSE CopyIncludes([src_root |-> src_root, dst_root |-> dst_root,
                       includes |-> includes,
                       excludes |-> exclude_patterns(excludes),
                       dry_run |-> dry_run],
                      CopyStart(ds, fs), 1)

-----------------------------------------------------------------------------
(* copy.rs: copy_directories and copy_dir_recursive                        *)

\* WalkDir::new(path): every entry below path, a directory before its
\* contents.  WalkDir yields the entries of a directory in the order the
\* operating system lists them; name order is taken here.  Symbolic links are
\* not modelled.
RECURSIVE WalkFrom(_, _, _, _)
WalkFrom(ds, fs, path, i) ==
    IF i > Len(NameOrder) THEN <<>>
    ELSE LET child == Append(path, NameOrder[i])
         IN  (IF child \in ds THEN <<child>> \o WalkFrom(ds, fs, child, 1)
              ELSE IF child \in fs THEN <<child>>
              ELSE <<>>)
               \o WalkFrom(ds, fs, path, i + 1)

WalkDir(ds, fs, path) == WalkFrom(ds, fs, path, 1)

\* copy_dir_recursive(src, dst, excludes) over the entries still to visit.
RECURSIVE CopyDirEntries(_, _, _, _, _)
CopyDirEntries(acc, src, dst, excludes, entries) ==
    IF entries = <<>> \/ acc.result = "err" THEN acc
    ELSE
      LET path   == Head(entries)
          rel    == StripPrefix(path, src)
          target == dst \o rel
      IN
      IF Excluded(excludes, rel)
      THEN CopyDirEntries(acc, src, dst, excludes, Tail(entries))
      ELSE IF path \in acc.dirs
      THEN LET made == create_dir_all(acc.dirs, acc.files, target)
           IN  IF ~made.ok THEN [acc EXCEPT !.result = "err"]
               ELSE CopyDirEntries([acc EXCEPT !.dirs = made.dirs],
                                   src, dst, excludes, Tail(entries))
      ELSE LET made == create_dir_all(acc.dirs, acc.files, Parent(target))
               done == fs_copy(made.dirs, acc.files, target)
           IN  IF ~made.ok THEN [acc EXCEPT !.result = "err"]
               ELSE IF ~done.ok
               THEN [acc EXCEPT !.dirs = made.dirs, !.result = "err"]
               ELSE CopyDirEntries([acc EXCEPT !.dirs = made.dirs,
                                               !.files = done.files],
                                   src, dst, excludes, Tail(entries))

copy_dir_recursive(acc, src, dst, excludes) ==
    CopyDirEntries(acc, src, dst, excludes, WalkDir(acc.dirs, acc.files, src))

\* The loop over the entries the walk of src_root yields for one pattern.
RECURSIVE CopyMatchingDirs(_, _, _, _)
CopyMatchingDirs(cx, acc, i, entries) ==
    IF entries = <<>> \/ acc.result = "err" THEN acc
    ELSE
      LET path == Head(entries)
          rel  == StripPrefix(path, cx.src_root)
          dest == cx.dst_root \o rel
      IN
      IF path \notin acc.dirs
      THEN CopyMatchingDirs(cx, acc, i, Tail(entries))
      ELSE IF ~GlobMatches(cx.includes[i], path[Len(path)])
      THEN CopyMatchingDirs(cx, acc, i, Tail(entries))
      ELSE IF Excluded(cx.excludes, rel)
      THEN CopyMatchingDirs(cx, acc, i, Tail(entries))
      ELSE
        LET r == copy_dir_recursive(acc, path, dest, cx.excludes)
        IN  IF r.result = "err" THEN r
            ELSE CopyMatchingDirs(cx,
                     [r EXCEPT !.events = Append(@,
                          CopyEvent(i, cx.includes[i], path, rel, dest)),
                               !.copied = @ + 1],
                     i, Tail(entries))

RECURSIVE CopyDirIncludes(_, _, _)
CopyDirIncludes(cx, acc, i) ==
    IF i > Len(cx.includes) \/ acc.result = "err" THEN acc
    ELSE IF is_unsafe_pattern(cx.includes[i])
    THEN CopyDirIncludes(cx, acc, i + 1)
    ELSE LET entries == WalkDir(acc.dirs, acc.files, cx.src_root)
             found   == [acc EXCEPT !.globbed =
                             Append(@, [idx |-> i, paths |-> entries])]
         IN  CopyDirIncludes(cx, CopyMatchingDirs(cx, found, i, entries), i + 1)

copy_directories(ds, fs, src_root, dst_root, includes, excludes) ==
    IF includes = <<>> THEN CopyStart(ds, fs)
    ELSE CopyDirIncludes([src_root |-> src_root, dst_root |-> dst_root,
                          includes |-> includes,
                          excludes |-> exclude_patterns(excludes),
                          dry_run |-> FALSE],
                         CopyStart(ds, fs), 1)

-----------------------------------------------------------------------------
(* clone.rs and main.rs: create_clone and cmd_new                          *)

\* No git checkout was run.
NoCheckout == [name |-> "none", start |-> <<>>]

\* git checkout -b <branch> origin/<branch>
TrackRemote(branch) ==
    [name |-> "track_remote", start |-> <<"origin/">> \o branch]

\* git checkout <branch>
CheckoutLocal(branch) == [name |-> "local", start |-> <<>>]

\* git checkout -b <branch> <base_ref>
NewFromBase(base_ref) == [name |-> "new_from_base", start |-> base_ref]

checkout_branch_local_first(git, branch, base_ref) ==
    [tier |-> IF git.hasLocal THEN CheckoutLocal(branch)
              ELSE IF git.hasRemote THEN TrackRemote(branch)
              ELSE NewFromBase(base_ref),
     ok   |-> git.checkoutOk]

\* checkout_branch: the git checkout the refs of the mirror select (hasRemote:
\* show-ref refs/remotes/origin/<branch>, hasLocal: show-ref
\* refs/heads/<branch>), and whether that checkout succeeds.
checkout_branch(git, branch, base_ref) ==
    [tier |-> IF git.hasRemote THEN TrackRemote(branch)
              ELSE IF git.hasLocal THEN CheckoutLocal(branch)
              ELSE NewFromBase(base_ref),
     ok   |-> git.checkoutOk]

\* An entry lies in directory d.
HasEntries(ds, fs, d) == \E e \in ds \cup fs : StrictlyUnder(d, e)

\* `git clone <source> <path>`: refused when path is a file or a directory
\* that is not empty; else the working copy, with its .git and a file f.
GitClone(ds, fs, path, cloneOk) ==
    LET r == Resolve(ds, path)
    IN  IF ~cloneOk \/ r = Unresolved \/ r \in fs \/ Parent(r) \notin ds
           \/ (r \in ds /\ HasEntries(ds, fs, r))
        THEN [ok |-> FALSE, dirs |-> ds, files |-> fs]
        ELSE [ok |-> TRUE, dirs |-> ds \cup {r, Append(r, DotGit)},
              files |-> fs \cup {Append(r, <<"f">>)}]

create_clone_exists_unchecked(ds, fs, path, branch, base_ref, git) ==
    LET made   == create_dir_all(ds, fs, Parent(path))
        cloned == GitClone(made.dirs, fs, path, git.cloneOk)
        co     == checkout_branch(git, branch.v, base_ref)
    IN  IF ~made.ok
        THEN [result |-> "err_mkdir", dirs |-> ds, files |-> fs, tier |-> NoCheckout]
        ELSE IF ~cloned.ok
        THEN [result |-> "err_clone", dirs |-> made.dirs, files |-> fs,
              tier |-> NoCheckout]
        ELSE IF ~branch.some
        THEN [result |-> "ok", dirs |-> cloned.dirs, files |-> cloned.files,
              tier |-> NoCheckout]
        ELSE [result |-> IF co.ok THEN "ok" ELSE "err_checkout",
              dirs |-> cloned.dirs, files |-> cloned.files, tier |-> co.tier]

\* create_clone(repo_root, mirror_dir, plan): branch is plan.branch, git says
\* how the git commands it runs end.
create_clone(ds, fs, path, branch, base_ref, git) ==
    IF Exists(ds, fs, path)
    THEN [result |-> "err_exists", dirs |-> ds, files |-> fs, tier |-> NoCheckout]
    ELSE
      LET made   == create_dir_all(ds, fs, Parent(path))
          cloned == GitClone(made.dirs, fs, path, git.cloneOk)
          co     == checkout_branch(git, branch.v, base_ref)
      IN  IF ~made.ok
          THEN [result |-> "err_mkdir", dirs |-> ds, files |-> fs, tier |-> NoCheckout]
          ELSE IF ~cloned.ok
          THEN [result |-> "err_clone", dirs |-> made.dirs, files |-> fs,
                tier |-> NoCheckout]
          ELSE IF ~branch.some
          THEN [result |-> "ok", dirs |-> cloned.dirs, files |-> cloned.files,
                tier |-> NoCheckout]
          ELSE [result |-> IF co.ok THEN "ok" ELSE "err_checkout",
                dirs |-> cloned.dirs, files |-> cloned.files, tier |-> co.tier]

CopyIncludeKey     == <<"spaces.", "copy.include">>
CopyExcludeKey     == <<"spaces.", "copy.exclude">>
CopyIncludeDirsKey == <<"spaces.", "copy.includeDirs">>
CopyExcludeDirsKey == <<"spaces.", "copy.excludeDirs">>

PostCreate == "postCreate"

FolderNameAsGiven(space) == space

\* let folder_name = paths::sanitize_branch_name(&space)
FolderName(space) == sanitize_branch_name(space)

NewDone(result, path, ds, fs, tier) ==
    [result |-> result, clone_path |-> path, dirs |-> ds, files |-> fs,
     tier |-> tier]

\* cmd_new after create_clone: copy_patterns for the include patterns of the
\* configuration and of the two pattern files, unless --no-copy.
NewCopyFiles(st, o, clone_path, made) ==
    LET includes == PushUnseen(<<>>,
                        cfg_get_all(st, CopyIncludeKey, "auto", spacesrc)
                           \o o.fileIncludes)
        excludes == cfg_get_all(st, CopyExcludeKey, "auto", spacesrc)
    IN  IF o.no_copy \/ includes = <<>>
        THEN CopyStart(made.dirs, made.files)
        ELSE copy_patterns(made.dirs, made.files, RepoRoot, clone_path,
                           includes, excludes, FALSE)

\* cmd_new after copy_patterns: copy_directories, unless --no-copy.
NewCopyDirs(st, o, clone_path, copied) ==
    LET dir_inc == cfg_get_all(st, CopyIncludeDirsKey, "auto", spacesrc)
        dir_exc == cfg_get_all(st, CopyExcludeDirsKey, "auto", spacesrc)
    IN  IF o.no_copy \/ copied.result # "ok" \/ dir_inc = <<>>
        THEN copied
        ELSE copy_directories(copied.dirs, copied.files, RepoRoot,
                              clone_path, dir_inc, dir_exc)

\* cmd_new after the copies: the postCreate hooks.
NewHooks(st, o, clone_path, tier, copied) ==
    IF copied.result # "ok"
    THEN NewDone("err_copy", clone_path, copied.dirs, copied.files, tier)
    ELSE NewDone(IF run_hooks(st, PostCreate, spacesrc, o.hookStatus).result = "ok"
                 THEN "ok" ELSE "err_hooks",
                 clone_path, copied.dirs, copied.files, tier)

\* cmd_new after create_clone.
NewAfterClone(st, o, clone_path, made) ==
    IF made.result # "ok"
    THEN NewDone(made.result, clone_path, made.dirs, made.files, made.tier)
    ELSE NewHooks(st, o, clone_path, made.tier,
                  NewCopyDirs(st, o, clone_path,
                              NewCopyFiles(st, o, clone_path, made)))

\* The steps cmd_new went through before it returned with `result`, in the
\* order of the code: ensure_mirror, create_clone, the copy block (unless
\* --no-copy) and run_hooks("postCreate").
NewSteps(result, o) ==
    IF result = "err_usage" THEN <<>>
    ELSE IF result = "err_mirror" THEN <<"ensure_mirror">>
    ELSE IF result \in {"err_exists", "err_mkdir", "err_clone", "err_checkout"}
    THEN <<"ensure_mirror", "create_clone">>
    ELSE <<"ensure_mirror", "create_clone">>
           \o (IF o.no_copy THEN <<>> ELSE <<"copy">>)
           \o (IF result = "err_copy" THEN <<>> ELSE <<"run_hooks">>)

\* paths::default_branch(repo_root), whatever branch it names.
DefaultBranch == <<"default_branch">>

\* let base_ref = match &args.from { Some(value) => value, None => default }
BaseRef(o) == IF o.from.some THEN o.from.v ELSE DefaultBranch

\* cmd_new for the space name `space`.  o holds the options (from, branch,
\* no_copy), whether the mirror can be had, how git's commands end, the
\* patterns of .worktreeinclude and .spacesinclude, and how the hooks end.
cmd_new(st, ds, fs, space, o) ==
    LET clone_path == PathJoin(clonesDir, prefix \o FolderName(space))
    IN
    IF o.from.some /\ ~o.branch.some
    THEN NewDone("err_usage", clone_path, ds, fs, NoCheckout)
    ELSE IF ~o.mirrorOk
    THEN NewDone("err_mirror", clone_path, ds, fs, NoCheckout)
    ELSE NewAfterClone(st, o, clone_path,
                       create_clone(ds, fs, clone_path, o.branch,
                                    BaseRef(o), o.git))

-----------------------------------------------------------------------------
(* main.rs: cmd_clean                                                      *)

\* The directories directly in clones_dir.
ChildDirs(ds, clones_dir) ==
    { d \in ds : Len(d) = Len(clones_dir) + 1 /\ Parent(d) = clones_dir }

\* The first loop of cmd_clean: every directory directly in clones_dir that
\* has no entry is removed with remove_dir.
remove_empty_dirs(ds, fs, clones_dir) ==
    IF ~IsDir(ds, clones_dir) THEN ds
    ELSE ds \ { d \in ChildDirs(ds, clones_dir) : ~HasEntries(ds, fs, d) }

\* list_clone_dirs: the directories in clones_dir whose name starts with the
\* prefix.
list_clone_dirs(ds, clones_dir, pfx) ==
    IF ~IsDir(ds, clones_dir) THEN {}
    ELSE { d \in ChildDirs(ds, clones_dir) : StartsWith(d[Len(d)], pfx) }

\* targets::space_name
space_name(path, pfx) ==
    LET name == path[Len(path)]
    IN  IF StartsWith(name, pfx) THEN SubSeq(name, Len(pfx) + 1, Len(name))
        ELSE name

\* What git and gh say of a space: HEAD is detached, it is on the branch of
\* the main repository, its working tree is dirty, the pull request of its
\* branch is merged, or none of these.
SpaceKinds == {"detached", "on_main", "dirty", "merged", "open"}

CleanDone(result, ds, fs, removed, skipped) ==
    [result |-> result, dirs |-> ds, files |-> fs,
     removed |-> removed, skipped |-> skipped]

\* The loop of cmd_clean over the clone directories still to look at.  o holds
\* the options (merged, dry_run, yes), the answer to the prompt and, for each
\* space name, what git and gh say of it.
RECURSIVE CleanLoop(_, _, _, _, _, _)
CleanLoop(ds, fs, paths, o, removed, skipped) ==
    IF paths = <<>> THEN CleanDone("ok", ds, fs, removed, skipped)
    ELSE
      LET path == Head(paths)
          kind == o.kinds[space_name(path, prefix)]
      IN
      IF kind \in {"detached", "dirty"}
      THEN CleanLoop(ds, fs, Tail(paths), o, removed, skipped + 1)
      ELSE IF kind # "merged"
      THEN CleanLoop(ds, fs, Tail(paths), o, removed, skipped)
      ELSE IF o.dry_run
      THEN CleanLoop(ds, fs, Tail(paths), o, removed + 1, skipped)
      ELSE IF o.yes \/ o.answer
      THEN LET r == safe_remove_clone(ds, fs, path, clonesDir)
           IN  IF r.outcome = "removed"
               THEN CleanLoop(r.dirs, r.files, Tail(paths), o, removed + 1,
                              skipped)
               ELSE CleanDone("err", r.dirs, r.files, removed, skipped)
      ELSE CleanLoop(ds, fs, Tail(paths), o, removed, skipped + 1)

\* cmd_clean after the empty directories are removed; order is the order in
\* which read_dir lists the clone directories.
CleanMerged(ds, fs, o, order) ==
    IF ~o.merged THEN CleanDone("ok", ds, fs, 0, 0)
    ELSE IF ~o.ghOk THEN CleanDone("err", ds, fs, 0, 0)
    ELSE CleanLoop(ds, fs, order, o, 0, 0)

cmd_clean(ds, fs, o, order) ==
    CleanMerged(remove_empty_dirs(ds, fs, clonesDir), fs, o, order)

-----------------------------------------------------------------------------
(* The filesystems and the inputs of the removal model                     *)

A == <<"a">>
B == <<"b">>

\* clones_dir as configured: beside the repository (the default,
\* <parent>/<repo>-clones), inside it (spaces.clones.dir = "c"), or the
\* repository itself (spaces.clones.dir = ".").
ClonesDirs == { <<C>>, <<R, C>>, <<R>> }

\* spaces.clones.prefix: empty (the default) or "p".
Prefixes == { <<>>, <<"p">> }

\* A space directory: absent, a directory without .git, or a clone.
SpaceStates == {"absent", "plain", "clone"}

SpaceDirs(cd, pfx, name, st) ==
    LET d == Append(cd, pfx \o name)
    IN  CASE st = "absent" -> {}
          [] st = "plain"  -> {d}
          [] st = "clone"  -> {d, Append(d, DotGit)}

InitialDirs(cd, pfx, sa, sb, clonesGit, parentGit) ==
    {<<>>, RepoRoot, Append(RepoRoot, DotGit), cd}
      \cup SpaceDirs(cd, pfx, A, sa) \cup SpaceDirs(cd, pfx, B, sb)
      \cup (IF clonesGit THEN {Append(cd, DotGit)} ELSE {})
      \cup (IF parentGit THEN {Append(Parent(cd), DotGit)} ELSE {})

\* A file in every directory that is not a .git directory, so that a removal
\* shows in files as well as in dirs.
InitialFiles(ds) ==
    { Append(d, <<"f">>) : d \in { x \in ds : x = <<>> \/ x[Len(x)] # DotGit } }

\* The identifiers given to rm: the main space, the two spaces, names that
\* sanitize to a space's name or to nothing, and "." and "..".
RmIds == { MainId, A, B, <<"/", "a">>, <<"/">>, Dot, DotDot }

MaxTargets == 2

TargetLists == UNION { [1..n -> RmIds] : n \in 0..MaxTargets }

-----------------------------------------------------------------------------
(* Idle values of the parts a specification does not exercise              *)

CfgIdle == [op |-> "none"]
CpIdle  == [op |-> "none"]
CallIdle == [op |-> "none"]
EmptyStore == [s \in {"local", "file", "global", "system"} |-> <<>>]

CfgQuiet ==
    /\ store = EmptyStore /\ spacesrc = FALSE /\ gitOk = TRUE
    /\ cfgOp = CfgIdle /\ cfgRes = <<>> /\ storeBefore = EmptyStore

-----------------------------------------------------------------------------
(* SpecRm: one rm command from any filesystem                              *)

InitRm ==
    /\ clonesDir \in ClonesDirs
    /\ prefix \in Prefixes
    /\ \E sa \in SpaceStates, sb \in {"absent", "clone"},
          clonesGit \in BOOLEAN, parentGit \in BOOLEAN :
         /\ dirs = InitialDirs(clonesDir, prefix, sa, sb, clonesGit, parentGit)
         /\ files = InitialFiles(dirs)
    /\ rmLog = <<>> /\ rmResult = "none"
    /\ CfgQuiet
    /\ cp = CpIdle
    /\ call = CallIdle

CmdRm ==
    /\ rmResult = "none"
    /\ \E targets \in TargetLists, force \in BOOLEAN,
          preFails \in BOOLEAN, postFails \in BOOLEAN :
         LET r == cmd_rm(targets, force, preFails, postFails)
         IN  /\ dirs' = r.dirs
             /\ files' = r.files
             /\ rmLog' = r.log
             /\ rmResult' = r.result
             /\ call' = [op |-> "cmd_rm", targets |-> targets, force |-> force,
                         preFails |-> preFails, postFails |-> postFails,
                         dirsBefore |-> dirs, filesBefore |-> files]
    /\ UNCHANGED <<clonesDir, prefix, cfgVars, cp>>

NextRm == CmdRm

SpecRm == InitRm /\ [][NextRm]_vars

-----------------------------------------------------------------------------
(* SpecCfg: one call of the configuration resolver on any store            *)

K1 == <<"spaces.", "k">>
K2 == <<"spaces.", "j">>
Keys == {K1, K2}

\* A value may be empty: `git config --add <key> ""` stores it.
Values == { <<>>, <<"a">>, <<"b">> }

Entries == { <<k, v>> : k \in Keys, v \in Values }

Scopes == {"auto", "local", "global", "system"}

\* The number of entries in the four sources together.
MaxEntries == 2

SeqsUpTo(S, n) == UNION { [1..m -> S] : m \in 0..n }

\* The store holding flat[1..c1] in local, flat[c1+1..c2] in .spacesrc,
\* flat[c2+1..c3] in global and the rest in system.
SplitStore(flat, c1, c2, c3) ==
    [s \in {"local", "file", "global", "system"} |->
        CASE s = "local"  -> SubSeq(flat, 1, c1)
          [] s = "file"   -> SubSeq(flat, c1 + 1, c2)
          [] s = "global" -> SubSeq(flat, c2 + 1, c3)
          [] s = "system" -> SubSeq(flat, c3 + 1, Len(flat))]

FsQuiet ==
    /\ dirs = {<<>>, RepoRoot} /\ files = {}
    /\ clonesDir = <<C>> /\ prefix = <<>>
    /\ rmLog = <<>> /\ rmResult = "none"

InitCfg ==
    /\ \E flat \in SeqsUpTo(Entries, MaxEntries) :
         \E c1 \in 0..Len(flat) : \E c2 \in c1..Len(flat) : \E c3 \in c2..Len(flat) :
            store = SplitStore(flat, c1, c2, c3)
    /\ spacesrc \in BOOLEAN
    /\ store["file"] # <<>> => spacesrc
    /\ gitOk \in BOOLEAN
    /\ storeBefore = store
    /\ cfgOp = CfgIdle /\ cfgRes = <<>>
    /\ FsQuiet
    /\ cp = CpIdle
    /\ call = CallIdle

EnvNames  == { <<>>, <<"SPACES_X">> }
EnvValues == { NoValue, <<>>, <<"e">> }
Fallbacks == { <<>>, <<"d">> }
FileKeys  == { None, Some(K2) }

CallGetAll ==
    /\ cfgOp = CfgIdle
    /\ \E key \in Keys, scope \in Scopes :
         /\ cfgOp' = [op |-> "cfg_get_all", key |-> key, scope |-> scope]
         /\ cfgRes' = cfg_get_all(store, key, scope, spacesrc)
    /\ UNCHANGED <<store, spacesrc, gitOk, storeBefore, fsVars, rmVars, cp, call>>

CallDefault ==
    /\ cfgOp = CfgIdle
    /\ \E env_name \in EnvNames, fallback \in Fallbacks,
          file_key \in FileKeys, env \in EnvValues :
         /\ cfgOp' = [op |-> "cfg_default", key |-> K1, env_name |-> env_name,
                      fallback |-> fallback, file_key |-> file_key, env |-> env]
         /\ cfgRes' = cfg_default(store, K1, env_name, fallback, file_key, env, spacesrc)
    /\ UNCHANGED <<store, spacesrc, gitOk, storeBefore, fsVars, rmVars, cp, call>>

CallList ==
    /\ cfgOp = CfgIdle
    /\ \E scope \in Scopes :
         /\ cfgOp' = [op |-> "cfg_list", scope |-> scope]
         /\ cfgRes' = cfg_list(store, scope, spacesrc)
    /\ UNCHANGED <<store, spacesrc, gitOk, storeBefore, fsVars, rmVars, cp, call>>

NextCfg == CallGetAll \/ CallDefault \/ CallList

SpecCfg == InitCfg /\ [][NextCfg]_vars

-----------------------------------------------------------------------------
(* SpecCmd: one config command, its arguments in any order                 *)

\* The words of a config command: at most one scope word, one action word, a
\* key and a value.
ArgChoices ==
    { ws \in SUBSET ( { <<"--system">>, <<"system">>, <<"--local">>, <<"--global">> }
                      \cup ActionWords \cup {K1} \cup {<<"a">>, <<"b">>, <<>>} ) :
        /\ Cardinality(ws \cap ScopeWords) <= 1
        /\ Cardinality(ws \cap ActionWords) <= 1
        /\ Cardinality(ws \cap {<<"a">>, <<"b">>, <<>>}) <= 1 }

Orderings(ws) ==
    { f \in [1..Cardinality(ws) -> ws] : \A i, j \in 1..Cardinality(ws) :
                                             i # j => f[i] # f[j] }

\* The values local holds for the key before the command.
LocalBefore == SeqsUpTo({ <<K1, <<"a">> >>, <<K1, <<"b">> >> }, MaxEntries)

InitCmd ==
    /\ \E l \in LocalBefore, g \in { <<>>, << <<K1, <<"a">> >> >> } :
         store = [local  |-> l,
                  file   |-> << <<K1, <<"f">> >> >>,
                  global |-> g,
                  system |-> << <<K1, <<"s">> >> >>]
    /\ spacesrc = TRUE
    /\ gitOk \in BOOLEAN
    /\ storeBefore = store
    /\ cfgOp = CfgIdle /\ cfgRes = <<>>
    /\ FsQuiet
    /\ cp = CpIdle
    /\ call = CallIdle

CmdConfig ==
    /\ cfgOp = CfgIdle
    /\ \E ws \in ArgChoices : \E args \in Orderings(ws) :
         LET r == cmd_config(store, args, spacesrc)
         IN  /\ cfgOp' = [op |-> "cmd_config", args |-> args, scope |-> r.scope,
                          action |-> r.action, key |-> r.key, value |-> r.value]
             /\ cfgRes' = [result |-> r.result, out |-> r.out]
             /\ store' = r.store
             /\ storeBefore' = store
    /\ UNCHANGED <<spacesrc, gitOk, fsVars, rmVars, cp, call>>

NextCmd == CmdConfig

SpecCmd == InitCmd /\ [][NextCmd]_vars

-----------------------------------------------------------------------------
(* SpecCopy: one copy from any tree                                        *)

D == <<"d">>
F == <<"f">>
G == <<"g">>
X == <<"x">>

\* The patterns given to a copy.  The first six pass is_unsafe_pattern's
\* checks, the last five fail one each.
PatF     == <<"f">>
PatD     == <<"d">>
PatAll   == <<"*">>
PatInD   == <<"d", "/", "*">>
PatDeep  == <<"*", "/", "*", "/", "f">>
PatDotF  == <<".", "/", "f">>
PatAbs   == <<"/", "x">>
PatUp    == <<".", ".">>
PatUpX   == <<".", ".", "/", "x">>
PatMidUp == <<"d", "/", ".", ".", "/", ".", ".", "/", "x">>
PatEndUp == <<"d", "/", ".", ".">>

PatternPool == { PatF, PatD, PatAll, PatInD, PatDeep, PatDotF,
                 PatAbs, PatUp, PatUpX, PatMidUp, PatEndUp }

\* The include lists: none, one or two patterns of the pool.
IncludeLists ==
    {<<>>} \cup { <<p>> : p \in PatternPool }
           \cup { <<p, q>> : p \in PatternPool, q \in PatternPool }

ExcludeLists == { <<>>, <<PatF>>, <<PatInD>>, <<PatUpX>>, <<PatUpX, PatF>> }

\* The space `a` of the copy model.
SpacePath == Append(clonesDir, A)

\* The tree: the repository with g, optionally f and d/f; the space, with g
\* or with a directory named f; and a file x beside the repository.
CopyTreeDirs(cd, hasD, spaceDirF) ==
    {<<>>, RepoRoot, cd, Append(cd, A)}
      \cup (IF hasD THEN {Append(RepoRoot, D)} ELSE {})
      \cup (IF spaceDirF THEN {cd \o <<A, F>>} ELSE {})

CopyTreeFiles(cd, hasF, hasD, spaceDirF) ==
    {<<X>>, Append(RepoRoot, G)}
      \cup (IF hasF THEN {Append(RepoRoot, F)} ELSE {})
      \cup (IF hasD THEN {RepoRoot \o <<D, F>>} ELSE {})
      \cup (IF spaceDirF THEN {} ELSE {cd \o <<A, G>>})

InitCopy ==
    /\ clonesDir \in { <<C>>, <<R, C>> }
    /\ prefix = <<>>
    /\ \E hasF \in BOOLEAN, hasD \in BOOLEAN, spaceDirF \in BOOLEAN :
         /\ dirs = CopyTreeDirs(clonesDir, hasD, spaceDirF)
         /\ files = CopyTreeFiles(clonesDir, hasF, hasD, spaceDirF)
    /\ rmLog = <<>> /\ rmResult = "none"
    /\ CfgQuiet
    /\ cp = CpIdle
    /\ call = CallIdle

CopyDone(op, src_root, dst_root, includes, excludes, dry_run, r) ==
    [op |-> op, src_root |-> src_root, dst_root |-> dst_root,
     includes |-> includes, excludes |-> excludes, dry_run |-> dry_run,
     dirsBefore |-> dirs, filesBefore |-> files,
     events |-> r.events, globbed |-> r.globbed, copied |-> r.copied,
     result |-> r.result]

\* cmd_copy and cmd_new: copy_patterns from the repository to the space, or
\* (copy --from) from the space to the repository.
CopyPatterns ==
    /\ cp = CpIdle
    /\ \E fromSpace \in BOOLEAN, includes \in IncludeLists,
          excludes \in ExcludeLists, dry_run \in BOOLEAN :
         LET src_root == IF fromSpace THEN SpacePath ELSE RepoRoot
             dst_root == IF fromSpace THEN RepoRoot ELSE SpacePath
             r == copy_patterns(dirs, files, src_root, dst_root,
                                includes, excludes, dry_run)
         IN  /\ dirs' = r.dirs
             /\ files' = r.files
             /\ cp' = CopyDone("copy_patterns", src_root, dst_root,
                               includes, excludes, dry_run, r)
    /\ UNCHANGED <<clonesDir, prefix, rmVars, cfgVars, call>>

\* cmd_new: copy_directories from the repository to the new space.  The walk
\* of src_root is taken whole for each pattern, which is what WalkDir yields
\* when the copy does not write below src_root; the action is taken for a
\* clones directory beside the repository.
CopyDirectories ==
    /\ cp = CpIdle
    /\ ~PathStartsWith(SpacePath, RepoRoot)
    /\ \E includes \in IncludeLists, excludes \in ExcludeLists :
         LET r == copy_directories(dirs, files, RepoRoot, SpacePath,
                                   includes, excludes)
         IN  /\ dirs' = r.dirs
             /\ files' = r.files
             /\ cp' = CopyDone("copy_directories", RepoRoot, SpacePath,
                               includes, excludes, FALSE, r)
    /\ UNCHANGED <<clonesDir, prefix, rmVars, cfgVars, call>>

NextCopy == CopyPatterns \/ CopyDirectories

SpecCopy == InitCopy /\ [][NextCopy]_vars

-----------------------------------------------------------------------------
(* SpecSanitize: sanitize_branch_name on any name                          *)

\* The characters of a name: every character sanitize_branch_name replaces,
\* the '-' it replaces them by, and three it leaves alone.
NameChars == SanitizedChars \cup {"-", "a", "b", "."}

MaxNameLen == 3

Names == UNION { [1..n -> NameChars] : n \in 0..MaxNameLen }

Quiet ==
    /\ FsQuiet /\ CfgQuiet
    /\ cp = CpIdle /\ call = CallIdle

InitSanitize == Quiet

\* sanitize_branch_name(name), and the same applied to its result.
Sanitize ==
    /\ call = CallIdle
    /\ \E name \in Names :
         call' = [op |-> "sanitize", name |-> name,
                  once |-> sanitize_branch_name(name),
                  twice |-> sanitize_branch_name(sanitize_branch_name(name))]
    /\ UNCHANGED <<fsVars, rmVars, cfgVars, cp>>

NextSanitize == Sanitize

SpecSanitize == InitSanitize /\ [][NextSanitize]_vars

-----------------------------------------------------------------------------
(* SpecResolve: one resolve_target on any clones directory                 *)

Heads == { OnBranch(<<"d", "e", "v">>), DetachedHead, NoHead }

\* The identifiers resolved: the main space, the spaces, names that sanitize
\* to a space's name or to nothing, and "." and "..".
ResolveIds == RmIds \cup { <<"a", "#">>, <<"b", "/", "a">> }

\* Any clones directory: space a in any state, and possibly a directory
\* named <prefix>1.
InitResolve ==
    /\ clonesDir \in ClonesDirs
    /\ prefix \in Prefixes
    /\ \E sa \in SpaceStates, s1 \in {"absent", "clone"} :
         /\ dirs = InitialDirs(clonesDir, prefix, sa, "absent", FALSE, FALSE)
                     \cup SpaceDirs(clonesDir, prefix, MainId, s1)
         /\ files = InitialFiles(dirs)
    /\ rmLog = <<>> /\ rmResult = "none"
    /\ CfgQuiet
    /\ cp = CpIdle
    /\ call = CallIdle

ResolveTarget ==
    /\ call = CallIdle
    /\ \E identifier \in ResolveIds, head \in Heads, supported \in BOOLEAN :
         call' = [op |-> "resolve_target", identifier |-> identifier,
                  head |-> head, supported |-> supported,
                  dirsBefore |-> dirs, filesBefore |-> files,
                  result |-> TargetResult(dirs, identifier, clonesDir, prefix,
                                          head, supported)]
    /\ UNCHANGED <<fsVars, rmVars, cfgVars, cp>>

NextResolve == ResolveTarget

SpecResolve == InitResolve /\ [][NextResolve]_vars

-----------------------------------------------------------------------------
(* SpecHooks: one phase of hooks on any store                              *)

PreRemove == "preRemove"

\* The hooks registered: two commands and a blank one.
HookValues == { <<"a">>, <<"b">>, <<" ">> }

HookEntries == { <<HookKey(PreRemove), v>> : v \in HookValues }

MaxHooks == 3

InitHooks ==
    /\ \E flat \in SeqsUpTo(HookEntries, MaxHooks) :
         \E c1 \in 0..Len(flat) : \E c2 \in c1..Len(flat) : \E c3 \in c2..Len(flat) :
            store = SplitStore(flat, c1, c2, c3)
    /\ spacesrc = (store["file"] # <<>>)
    /\ gitOk = TRUE
    /\ storeBefore = store
    /\ cfgOp = CfgIdle /\ cfgRes = <<>>
    /\ FsQuiet
    /\ cp = CpIdle
    /\ call = CallIdle

RunHooks ==
    /\ call = CallIdle
    /\ LET hooks == cfg_get_all(store, HookKey(PreRemove), "auto", spacesrc)
       IN  \E status \in [1..Len(hooks) -> HookOutcomes] :
             LET r == run_hooks(store, PreRemove, spacesrc, status)
             IN  call' = [op |-> "run_hooks", phase |-> PreRemove,
                          hooks |-> hooks, status |-> status,
                          ran |-> r.ran, failed |-> r.failed,
                          result |-> r.result]
    /\ UNCHANGED <<fsVars, rmVars, cfgVars, cp>>

NextHooks == RunHooks

SpecHooks == InitHooks /\ [][NextHooks]_vars

-----------------------------------------------------------------------------
(* SpecNew: one new command on any clones directory                        *)

\* The names given to new: a plain name, names that sanitize to it, to "1"
\* and to nothing, and "1" and "..".
NewNames == { A, <<"a", "#">>, <<"/", "a">>, <<"/", "1">>, MainId, DotDot,
              <<"/">> }

\* How the git commands of create_clone end: the clone fails; the clone
\* succeeds and the mirror has the remote-tracking branch, the local branch
\* or neither; the checkout fails.
GitRun(cloneOk, hasRemote, hasLocal, checkoutOk) ==
    [cloneOk |-> cloneOk, hasRemote |-> hasRemote, hasLocal |-> hasLocal,
     checkoutOk |-> checkoutOk]

GitRuns == { GitRun(FALSE, FALSE, FALSE, TRUE), GitRun(TRUE, TRUE, TRUE, TRUE),
             GitRun(TRUE, TRUE, FALSE, TRUE), GitRun(TRUE, TRUE, TRUE, FALSE),
             GitRun(TRUE, FALSE, TRUE, TRUE), GitRun(TRUE, FALSE, FALSE, TRUE),
             GitRun(TRUE, FALSE, FALSE, FALSE) }

\* --from: not given, or a base reference.
Froms == { None, Some(<<"b", "a", "s", "e">>) }

Branches == { None, Some(<<"d", "e", "v">>) }

\* The configuration: nothing, or a copy pattern and a postCreate hook.
NewStores ==
    { EmptyStore,
      [EmptyStore EXCEPT !["local"] = << <<CopyIncludeKey, PatF>>,
                                         <<CopyIncludeDirsKey, PatD>>,
                                         <<HookKey(PostCreate), <<"h">> >> >>] }

\* The clones directory with space a there or not, or no clones directory.
InitNew ==
    /\ clonesDir \in ClonesDirs
    /\ prefix \in Prefixes
    /\ \E sa \in {"absent", "clone"}, clonesExist \in BOOLEAN :
         /\ dirs = IF clonesExist
                   THEN InitialDirs(clonesDir, prefix, sa, "absent", FALSE, FALSE)
                   ELSE {<<>>, RepoRoot, Append(RepoRoot, DotGit)}
         /\ files = InitialFiles(dirs)
    /\ rmLog = <<>> /\ rmResult = "none"
    /\ store \in NewStores /\ storeBefore = store
    /\ spacesrc = FALSE /\ gitOk = TRUE
    /\ cfgOp = CfgIdle /\ cfgRes = <<>>
    /\ cp = CpIdle
    /\ call = CallIdle

\* Every postCreate hook of the configuration ends as `hook` says.
HookStatuses(hook) ==
    [i \in 1..Len(cfg_get_all(store, HookKey(PostCreate), "auto", spacesrc))
        |-> hook]

CmdNew ==
    /\ call = CallIdle
    /\ \E space \in NewNames, from \in Froms, branch \in Branches,
          mirrorOk \in BOOLEAN, git \in GitRuns, no_copy \in BOOLEAN,
          hook \in {"ok", "fail"} :
       \E o \in { [from |-> from, branch |-> branch, mirrorOk |-> mirrorOk,
                   git |-> git, no_copy |-> no_copy, fileIncludes |-> <<>>,
                   hookStatus |-> HookStatuses(hook)] } :
       \E r \in { cmd_new(store, dirs, files, space, o) } :
         /\ dirs' = r.dirs
         /\ files' = r.files
         /\ call' = [op |-> "cmd_new", space |-> space, options |-> o,
                     dirsBefore |-> dirs, filesBefore |-> files,
                     clone_path |-> r.clone_path, tier |-> r.tier,
                     steps |-> NewSteps(r.result, o),
                     result |-> r.result]
    /\ UNCHANGED <<clonesDir, prefix, rmVars, cfgVars, cp>>

NextNew == CmdNew

SpecNew == InitNew /\ [][NextNew]_vars

-----------------------------------------------------------------------------
(* SpecSecrets: copy_patterns on a repository with a secrets directory     *)

Secrets  == <<"secrets">>
DevYaml  == <<"dev", ".yaml">>
ProdYaml == <<"prod", ".yaml">>
KeyTxt   == <<"key", ".txt">>

SecretNames == {DevYaml, ProdYaml, KeyTxt}

PatSecretsAll  == <<"secrets", "/", "*">>
PatSecretsYaml == <<"secrets", "/", "*", ".yaml">>
PatSecretsProd == <<"secrets", "/", "prod", ".yaml">>

SecretIncludes == { <<PatSecretsYaml>>, <<PatSecretsAll>>,
                    <<PatSecretsYaml, PatSecretsAll>> }

SecretExcludes == { <<>>, <<PatSecretsProd>>, <<PatSecretsAll>>,
                    <<PatSecretsAll, PatSecretsProd>>,
                    <<PatSecretsProd, PatSecretsAll>> }

\* The repository with g and a directory secrets holding any of the three
\* files, and the space a.
InitSecrets ==
    /\ clonesDir \in { <<C>>, <<R, C>> }
    /\ prefix = <<>>
    /\ \E held \in SUBSET SecretNames :
         /\ dirs = {<<>>, RepoRoot, Append(RepoRoot, Secrets), clonesDir,
                    SpacePath}
         /\ files = {Append(RepoRoot, G)}
                      \cup { RepoRoot \o <<Secrets, n>> : n \in held }
    /\ rmLog = <<>> /\ rmResult = "none"
    /\ CfgQuiet
    /\ cp = CpIdle
    /\ call = CallIdle

CopySecrets ==
    /\ cp = CpIdle
    /\ \E includes \in SecretIncludes, excludes \in SecretExcludes,
          dry_run \in BOOLEAN :
         LET r == copy_patterns(dirs, files, RepoRoot, SpacePath,
                                includes, excludes, dry_run)
         IN  /\ dirs' = r.dirs
             /\ files' = r.files
             /\ cp' = CopyDone("copy_patterns", RepoRoot, SpacePath,
                               includes, excludes, dry_run, r)
    /\ UNCHANGED <<clonesDir, prefix, rmVars, cfgVars, call>>

NextSecrets == CopySecrets

SpecSecrets == InitSecrets /\ [][NextSecrets]_vars

-----------------------------------------------------------------------------
(* SpecClean: one clean command on any clones directory                    *)

\* A space directory of the clean model: absent, a directory without entries,
\* a directory with a file, or a clone.
CleanStates == {"absent", "empty", "plain", "clone"}

CleanSpaceState(st) == IF st = "empty" THEN "plain" ELSE st

\* The sequences that list every element of S once.
OrdersOf(S) ==
    { s \in [1..Cardinality(S) -> S] :
        \A i, j \in 1..Cardinality(S) : i # j => s[i] # s[j] }

InitClean ==
    /\ clonesDir \in { <<C>>, <<R, C>> }
    /\ prefix \in Prefixes
    /\ \E sa \in CleanStates, sb \in CleanStates :
         /\ dirs = InitialDirs(clonesDir, prefix, CleanSpaceState(sa),
                               CleanSpaceState(sb), FALSE, FALSE)
         /\ files = InitialFiles(dirs)
                      \ ((IF sa = "empty"
                          THEN {Append(clonesDir, prefix \o A) \o <<F>>} ELSE {})
                         \cup (IF sb = "empty"
                               THEN {Append(clonesDir, prefix \o B) \o <<F>>}
                               ELSE {}))
    /\ rmLog = <<>> /\ rmResult = "none"
    /\ CfgQuiet
    /\ cp = CpIdle
    /\ call = CallIdle

CmdClean ==
    /\ call = CallIdle
    /\ \E merged \in BOOLEAN, dry_run \in BOOLEAN, yes \in BOOLEAN,
          answer \in BOOLEAN, ghOk \in BOOLEAN,
          kinds \in [{A, B} -> SpaceKinds] :
       \E order \in OrdersOf(list_clone_dirs(
                        remove_empty_dirs(dirs, files, clonesDir),
                        clonesDir, prefix)) :
         LET o == [merged |-> merged, dry_run |-> dry_run, yes |-> yes,
                   answer |-> answer, ghOk |-> ghOk, kinds |-> kinds]
             r == cmd_clean(dirs, files, o, order)
         IN  /\ dirs' = r.dirs
             /\ files' = r.files
             /\ call' = [op |-> "cmd_clean", options |-> o, order |-> order,
                         dirsBefore |-> dirs, filesBefore |-> files,
                         removed |-> r.removed, skipped |-> r.skipped,
                         result |-> r.result]
    /\ UNCHANGED <<clonesDir, prefix, rmVars, cfgVars, cp>>

NextClean == CmdClean

SpecClean == InitClean /\ [][NextClean]_vars

-----------------------------------------------------------------------------
(* Claims about removal                                                    *)

\* p is directory d or lies below it.
AtOrBelow(d, p) == p = d \/ StrictlyUnder(d, p)

Refusals == {"refused_outside", "refused_nongit", "main_skipped", "hook_aborted"}

\* C1: removing a target that is not located inside clones_dir, or that has no
\* .git entry, fails and removes nothing, for every identifier given to rm.
C1_OutsideOrUnmarkedNeverRemoved ==
    \A i \in 1..Len(rmLog) :
        LET e == rmLog[i]
        IN  (e.outcome # "not_found" /\ (~AtOrBelow(clonesDir, e.real) \/ ~e.git))
                => (e.outcome \in Refusals /\ e.removed = {})

\* C2: a target path that is clones_dir itself, or an ancestor of it, is
\* rejected and nothing is removed, also when it holds a .git entry.
C2_ClonesDirItselfRejected ==
    \A i \in 1..Len(rmLog) :
        LET e == rmLog[i]
        IN  (e.outcome # "not_found" /\ AtOrBelow(e.real, clonesDir))
                => (e.outcome \in Refusals /\ e.removed = {})

-----------------------------------------------------------------------------
(* Claims about rm: hooks, several targets, --force                        *)

IsRm == call.op = "cmd_rm"

\* The targets cmd_rm resolved to a space (not the main repository).
ReachedSpace(e) == e.outcome \notin {"not_found", "main_skipped"}

\* The outcomes with which cmd_rm returns an error.
RmErrors == {"not_found", "refused_outside", "refused_nongit", "remove_failed"}

\* C17: for each target rm removed, the preRemove hooks ran before
\* safe_remove_clone and the postRemove hooks after it; when the preRemove hooks
\* fail without --force the target is left as it was and no postRemove hook
\* runs; with --force safe_remove_clone is called all the same; and rm returns
\* an error only for a target that was not found, refused or not fully removed,
\* never for a failing postRemove hook.
C17_HooksAroundRemoval ==
    IsRm =>
      /\ \A i \in 1..Len(rmLog) :
           LET e == rmLog[i]
           IN  /\ e.outcome = "removed" =>
                     /\ e.steps = <<"preRemove", "safe_remove_clone", "postRemove">>
                     /\ e.real \notin dirs
               /\ (ReachedSpace(e) /\ call.preFails /\ ~call.force) =>
                     /\ e.outcome = "hook_aborted"
                     /\ e.steps = <<"preRemove">>
                     /\ e.removed = {}
                     /\ e.real \in dirs
               /\ (ReachedSpace(e) /\ call.preFails /\ call.force) =>
                     e.steps[1] = "preRemove"
                     /\ \E k \in 2..Len(e.steps) : e.steps[k] = "safe_remove_clone"
      /\ (call.targets # <<>> /\ rmResult = "err") =>
             rmLog[Len(rmLog)].outcome \in RmErrors
      /\ (\A i \in 1..Len(rmLog) : rmLog[i].outcome \notin RmErrors) =>
             (Len(rmLog) = Len(call.targets)
              /\ (call.targets # <<>> => rmResult = "ok"))

\* Two spaces removed with --force although the preRemove hooks failed and
\* the postRemove hooks failed too; rm returned no error.
C17_Witness ==
    /\ IsRm /\ call.force /\ call.preFails /\ call.postFails
    /\ Len(rmLog) = 2
    /\ \A i \in 1..2 : rmLog[i].outcome = "removed" /\ rmLog[i].post = "failed"
    /\ rmResult = "ok"

\* The preRemove hooks failed without --force: the space is still there.
C17_WitnessAborted ==
    /\ IsRm /\ ~call.force /\ call.preFails
    /\ \E i \in 1..Len(rmLog) :
          rmLog[i].outcome = "hook_aborted" /\ rmLog[i].real \in dirs

\* C18: a target rm cannot resolve, or whose removal is refused, does not keep
\* rm from the targets after it: every identifier given is processed.
C18_LaterTargetsStillProcessed ==
    (IsRm /\ \A i \in 1..Len(rmLog) : rmLog[i].outcome # "remove_failed") =>
        /\ Len(rmLog) = Len(call.targets)
        /\ \A j \in 1..Len(call.targets) : rmLog[j].id = call.targets[j]

\* C19: with --force, a target outside the clones directory or without a .git
\* entry is refused by safe_remove_clone and nothing is removed.
C19_ForceNeverOverridesSafety ==
    (IsRm /\ call.force) =>
        \A i \in 1..Len(rmLog) :
            LET e == rmLog[i]
            IN  (ReachedSpace(e) /\ (~AtOrBelow(clonesDir, e.real) \/ ~e.git))
                    => (e.outcome \in {"refused_outside", "refused_nongit"}
                        /\ e.removed = {})

-----------------------------------------------------------------------------
(* Claims about the configuration resolver                                 *)

NoDuplicates(seq) == \A i, j \in 1..Len(seq) : i # j => seq[i] # seq[j]

FirstIndex(seq, x) == CHOOSE i \in 1..Len(seq) : seq[i] = x /\ \A j \in 1..(i - 1) : seq[j] # x

\* Every value the four sources hold for key, narrowest source first.
AllValues(key) ==
    ValuesOf(store, "local", key)
      \o (IF spacesrc THEN ValuesOf(store, "file", key) ELSE <<>>)
      \o ValuesOf(store, "global", key) \o ValuesOf(store, "system", key)

IsAutoGetAll == cfgOp.op = "cfg_get_all" /\ cfgOp.scope = "auto" /\ gitOk

\* C5: cfg_get_all(Auto) has no duplicate, holds every value present in any of
\* the four sources, and orders the values by their first occurrence in the
\* order local, .spacesrc, global, system.
C5_AutoGetAllAccumulates ==
    IsAutoGetAll =>
        LET all == AllValues(cfgOp.key)
        IN  /\ NoDuplicates(cfgRes)
            /\ Range(all) \subseteq Range(cfgRes)
            /\ \A i, j \in 1..Len(cfgRes) :
                  (i < j /\ cfgRes[i] \in Range(all) /\ cfgRes[j] \in Range(all))
                      => FirstIndex(all, cfgRes[i]) < FirstIndex(all, cfgRes[j])

IsDefault == cfgOp.op = "cfg_default"

TextOf(opt) == IF opt.some THEN opt.v ELSE <<>>

\* The five tiers of cfg_default for the call in cfgOp, highest precedence
\* first: local, .spacesrc, git's own resolution, the environment, the fallback.
Tiers ==
    LET fk == IF cfgOp.file_key.some THEN cfgOp.file_key.v ELSE cfgOp.key
        fv == git_config_file_get_all(store, fk, spacesrc)
    IN  << TextOf(git_config_get(store, cfgOp.key, "local")),
           IF fv = <<>> THEN <<>> ELSE fv[1],
           TextOf(git_config_get(store, cfgOp.key, "auto")),
           IF cfgOp.env_name # <<>> /\ cfgOp.env # NoValue THEN cfgOp.env ELSE <<>>,
           cfgOp.fallback >>

\* C6: cfg_default returns the value of the first non-empty tier, whatever the
\* later tiers hold; the .spacesrc tier is looked up under the alternate key
\* when one is given.
C6_DefaultPrecedence ==
    IsDefault =>
        /\ \A i \in 1..5 :
              (Tiers[i] # <<>> /\ \A j \in 1..(i - 1) : Tiers[j] = <<>>)
                  => cfgRes.v = Tiers[i]
        /\ (\A i \in 1..5 : Tiers[i] = <<>>) => cfgRes.v = <<>>

\* A call decided by the .spacesrc tier under the alternate key, although the
\* environment and the fallback hold values too.
C6_Witness ==
    /\ IsDefault /\ cfgOp.file_key.some
    /\ Tiers[1] = <<>> /\ Tiers[2] # <<>> /\ Tiers[4] # <<>> /\ Tiers[5] # <<>>
    /\ ValuesOf(store, "file", cfgOp.key) = <<>>
    /\ cfgRes.v = Tiers[2]

\* C7: cfg_default never fails, and returns a non-empty value whenever the
\* fallback is non-empty.
C7_DefaultNeverFails ==
    IsDefault => (cfgRes.ok /\ (cfgOp.fallback # <<>> => cfgRes.v # <<>>))

\* git cannot be run, the environment variable is not set: the fallback is returned.
C7_Witness ==
    /\ IsDefault /\ ~gitOk /\ cfgOp.env = NoValue /\ store["local"] # <<>>
    /\ cfgOp.fallback # <<>> /\ cfgRes = Ok(cfgOp.fallback)

IsAutoList == cfgOp.op = "cfg_list" /\ cfgOp.scope = "auto"

LineLabel(line) == SubSeq(line, Len(line) - 1, Len(line))
LineText(line)  == SubSeq(line, 1, Len(line) - 2)

LabelRank(label) == CHOOSE r \in 1..4 : Label(Sources[r]) = label

\* C10: cfg_list(Auto) emits its lines in the order local, .spacesrc, global,
\* system; no line repeats the text of an earlier one; every line ends with the
\* label of the source it was read from, the narrowest source that holds it.
C10_AutoListLabelled ==
    IsAutoList =>
        /\ \A i \in 1..Len(cfgRes) :
              /\ Len(cfgRes[i]) >= 2
              /\ \E r \in 1..4 :
                    /\ LineLabel(cfgRes[i]) = Label(Sources[r])
                    /\ LineText(cfgRes[i]) \in Range(ListedLines(store, Sources[r], spacesrc))
                    /\ \A q \in 1..(r - 1) :
                          LineText(cfgRes[i]) \notin Range(ListedLines(store, Sources[q], spacesrc))
        /\ \A i, j \in 1..Len(cfgRes) :
              i < j => /\ LineText(cfgRes[i]) # LineText(cfgRes[j])
                       /\ LabelRank(LineLabel(cfgRes[i])) <= LabelRank(LineLabel(cfgRes[j]))

\* A listing of two lines from .spacesrc and global.
C10_Witness ==
    /\ IsAutoList /\ Len(cfgRes) = 2
    /\ LineLabel(cfgRes[1]) = Label("file") /\ LineLabel(cfgRes[2]) = Label("global")

\* A listing in which global repeats a line of local, emitted once.
C10_WitnessDup ==
    /\ IsAutoList /\ Len(cfgRes) = 1 /\ gitOk
    /\ store["local"] # <<>> /\ store["local"] = store["global"]

-----------------------------------------------------------------------------
(* Claims about the config command                                         *)

IsCmd == cfgOp.op = "cmd_config"

SystemWords == { <<"--system">>, <<"system">> }
WriteWords  == { <<"set">>, <<"add">>, <<"unset">> }

\* C8: a set, add or unset given with the system scope is rejected and leaves
\* every source as it was, wherever the scope word stands among the arguments.
C8_SystemWritesRejected ==
    (IsCmd /\ Range(cfgOp.args) \cap SystemWords # {}
           /\ Range(cfgOp.args) \cap WriteWords # {})
        => (cfgRes.result = "err_system" /\ store = storeBefore)

\* `config <key> <value> set --system`: the scope word comes last.
C8_Witness ==
    /\ IsCmd /\ Len(cfgOp.args) = 4 /\ gitOk
    /\ cfgOp.args[1] = K1 /\ cfgOp.args[3] = <<"set">> /\ cfgOp.args[4] = <<"--system">>
    /\ cfgRes.result = "err_system" /\ store = storeBefore

\* A write command without a scope word, complete and with git working.
IsAutoWrite(action) ==
    /\ IsCmd /\ gitOk
    /\ Range(cfgOp.args) \cap ScopeWords = {}
    /\ cfgOp.action = action /\ cfgOp.key.some
    /\ action = "set" => cfgOp.value.some

OnlyLocalTouched ==
    \A src \in {"file", "global", "system"} : store[src] = storeBefore[src]

\* C9: a set without a scope word writes to local only, and cfg_get_all(Local)
\* then holds the new value, whatever local held for the key before; after an
\* unset without a scope word cfg_get_all(Local) is empty.
C9_AutoSetReflectedInLocal ==
    /\ IsAutoWrite("set") =>
          /\ OnlyLocalTouched
          /\ cfgOp.value.v \in Range(cfg_get_all(store, cfgOp.key.v, "local", spacesrc))
    /\ IsAutoWrite("unset") =>
          /\ OnlyLocalTouched
          /\ cfg_get_all(store, cfgOp.key.v, "local", spacesrc) = <<>>

-----------------------------------------------------------------------------
(* Claims about the copy engine                                            *)

IsCopy == cp # CpIdle

\* The unsafe-pattern predicate as the specification words it.
UnsafePredicate(p) ==
    \/ StartsWith(p, <<"/">>)
    \/ p = <<".", ".">>
    \/ StartsWith(p, <<".", ".", "/">>)
    \/ Contains(p, <<"/", ".", ".", "/">>)
    \/ EndsWith(p, <<"/", ".", ".">>)

SafeOnly(patterns) == SelectSeq(patterns, LAMBDA p : ~UnsafePredicate(p))

\* The last copy again, from the tree it started on, with other lists.
CopyAgain(includes, excludes, dry_run) ==
    IF cp.op = "copy_patterns"
    THEN copy_patterns(cp.dirsBefore, cp.filesBefore, cp.src_root, cp.dst_root,
                       includes, excludes, dry_run)
    ELSE copy_directories(cp.dirsBefore, cp.filesBefore, cp.src_root,
                          cp.dst_root, includes, excludes)

\* What a copy selected: source, relative path and destination, in order.
Candidates(events) ==
    [k \in 1..Len(events) |->
        <<events[k].src, events[k].rel, events[k].dest>>]

\* C3: in both modes and for every list of includes and excludes, a pattern
\* that matches the unsafe-pattern predicate is never expanded and selects
\* nothing; every entry the copy creates lies in dst_root and every path it
\* looks at lies in src_root; and the copy ends exactly as the same copy
\* without the unsafe patterns does.
C3_UnsafePatternsCauseNothing ==
    IsCopy =>
      LET without == CopyAgain(SafeOnly(cp.includes), SafeOnly(cp.excludes),
                               cp.dry_run)
      IN  /\ \A i \in 1..Len(cp.includes) :
                UnsafePredicate(cp.includes[i]) =>
                  /\ \A k \in 1..Len(cp.globbed) : cp.globbed[k].idx # i
                  /\ \A k \in 1..Len(cp.events) : cp.events[k].idx # i
          /\ \A e \in (dirs \cup files) \ (cp.dirsBefore \cup cp.filesBefore) :
                PathStartsWith(e, cp.dst_root)
          /\ \A k \in 1..Len(cp.globbed) :
                \A path \in Range(cp.globbed[k].paths) :
                    PathStartsWith(Resolve(dirs, path), cp.src_root)
          /\ dirs = without.dirs /\ files = without.files
          /\ Candidates(cp.events) = Candidates(without.events)
          /\ cp.copied = without.copied /\ cp.result = without.result

\* A real copy_patterns whose includes hold `../x`, with x beside the
\* repository, and a pattern that copied a file; `../x` is an exclude too.
C3_Witness ==
    /\ IsCopy /\ cp.op = "copy_patterns" /\ ~cp.dry_run
    /\ cp.src_root = RepoRoot /\ <<X>> \in cp.filesBefore
    /\ cp.includes = <<PatUpX, PatAll>> /\ cp.excludes = <<PatUpX, PatF>>
    /\ cp.copied > 0 /\ files # cp.filesBefore

\* C4: for the same tree, includes and excludes, the dry run of copy_patterns
\* changes nothing on the filesystem, and it selects the same candidates and
\* reports the same count as the real run, whenever the real run completes.
C4_DryRunSelectsAsRealRun ==
    (IsCopy /\ cp.op = "copy_patterns") =>
      LET dry  == CopyAgain(cp.includes, cp.excludes, TRUE)
          real == CopyAgain(cp.includes, cp.excludes, FALSE)
      IN  /\ cp.dry_run => (dirs = cp.dirsBefore /\ files = cp.filesBefore)
          /\ dry.dirs = cp.dirsBefore /\ dry.files = cp.filesBefore
          /\ dry.result = "ok"
          /\ real.result = "ok" =>
                /\ Candidates(dry.events) = Candidates(real.events)
                /\ dry.copied = real.copied

\* The indexes of the include patterns that pass the unsafe-pattern predicate.
SafeIndexes == { i \in 1..Len(cp.includes) : ~UnsafePredicate(cp.includes[i]) }

\* C21: an unsafe include pattern selects nothing and the include patterns
\* after it are expanded all the same; an unsafe exclude pattern excludes
\* nothing, while no selected candidate matches a safe exclude; and the copy
\* fails only where the same copy without the unsafe patterns fails: with
\* unsafe includes alone it succeeds and changes nothing.
C21_UnsafePatternsSkippedNotFatal ==
    IsCopy =>
      /\ \A k \in 1..Len(cp.events) : cp.events[k].idx \in SafeIndexes
      /\ cp.result = "ok" =>
            { cp.globbed[k].idx : k \in 1..Len(cp.globbed) } = SafeIndexes
      /\ SafeIndexes = {} =>
            /\ cp.result = "ok" /\ cp.copied = 0
            /\ dirs = cp.dirsBefore /\ files = cp.filesBefore
      /\ LET kept == CopyAgain(cp.includes, SafeOnly(cp.excludes), cp.dry_run)
         IN  /\ Candidates(cp.events) = Candidates(kept.events)
             /\ files = kept.files /\ cp.result = kept.result
      /\ \A k \in 1..Len(cp.events) :
            \A p \in Range(SafeOnly(cp.excludes)) :
                ~GlobMatches(p, PathText(cp.events[k].rel))
      /\ cp.result = "err" =>
            CopyAgain(SafeOnly(cp.includes), SafeOnly(cp.excludes),
                      cp.dry_run).result = "err"

\* A real copy_patterns with the includes /x and f and the exclude ../x: f
\* is copied by the second pattern and the copy succeeds.
C21_Witness ==
    /\ IsCopy /\ cp.op = "copy_patterns" /\ ~cp.dry_run
    /\ cp.includes = <<PatAbs, PatF>> /\ cp.excludes = <<PatUpX>>
    /\ cp.result = "ok" /\ cp.copied = 1
    /\ cp.events[1].idx = 2
    /\ Append(cp.dst_root, F) \in files \ cp.filesBefore

\* A copy_directories with the includes .. and d: d is copied.
C21_WitnessDirs ==
    /\ IsCopy /\ cp.op = "copy_directories"
    /\ cp.includes = <<PatUp, PatD>> /\ cp.excludes = <<PatUpX>>
    /\ cp.result = "ok" /\ cp.copied = 1
    /\ Append(cp.dst_root, D) \in dirs \ cp.dirsBefore

\* The regular files the i-th include pattern matches in the tree the copy
\* started on, relative to src_root; none when the pattern is unsafe.
MatchedBy(i) ==
    IF UnsafePredicate(cp.includes[i]) THEN {}
    ELSE { StripPrefix(path, cp.src_root) :
             path \in { q \in Range(glob_with(cp.dirsBefore, cp.filesBefore,
                                              cp.src_root,
                                              StripDotSlash(cp.includes[i]))) :
                          Resolve(cp.dirsBefore, q) \in cp.filesBefore } }

\* The relative paths files mode is to copy: matched by a safe include and
\* by no safe exclude.
ToCopy ==
    { rel \in UNION { MatchedBy(i) : i \in 1..Len(cp.includes) } :
        \A p \in Range(SafeOnly(cp.excludes)) :
            ~GlobMatches(p, PathText(rel)) }

\* C22: a copy_patterns that completes selects exactly the regular files of
\* the source tree that a safe include pattern matches and no safe exclude
\* pattern matches, each once, under the first include pattern that matches
\* it, and writes each to the same relative path under dst_root.
C22_FilesModeCopiesExactlyTheMatches ==
    (IsCopy /\ cp.op = "copy_patterns" /\ cp.result = "ok") =>
      /\ { cp.events[k].rel : k \in 1..Len(cp.events) } = ToCopy
      /\ \A k, l \in 1..Len(cp.events) :
            k # l => cp.events[k].rel # cp.events[l].rel
      /\ cp.copied = Len(cp.events)
      /\ \A k \in 1..Len(cp.events) :
            LET e == cp.events[k]
            IN  /\ e.rel \in MatchedBy(e.idx)
                /\ \A i \in 1..(e.idx - 1) : e.rel \notin MatchedBy(i)
                /\ e.dest = cp.dst_root \o e.rel
                /\ ~cp.dry_run => e.dest \in files

\* The scenario: include secrets/*.yaml, excludes secrets/* and
\* secrets/prod.yaml, a real run.
IsSecretsScenario ==
    /\ IsCopy /\ cp.op = "copy_patterns" /\ ~cp.dry_run
    /\ cp.includes = <<PatSecretsYaml>>
    /\ cp.excludes = <<PatSecretsAll, PatSecretsProd>>

\* The files secrets/*.yaml of the source tree, but for secrets/prod.yaml.
YamlButProd ==
    { n \in SecretNames :
        /\ cp.src_root \o <<Secrets, n>> \in cp.filesBefore
        /\ n[Len(n)] = ".yaml"
        /\ n # ProdYaml }

\* C20: with the excludes secrets/* and secrets/prod.yaml and the include
\* secrets/*.yaml, copy_patterns copies every secrets/*.yaml file of the
\* source tree but secrets/prod.yaml, and nothing else.
C20_YamlExceptProdCopied ==
    IsSecretsScenario =>
        files \ cp.filesBefore
            = { cp.dst_root \o <<Secrets, n>> : n \in YamlButProd }

-----------------------------------------------------------------------------
(* Claims about names and target resolution                                *)

\* C11: sanitizing is idempotent: a sanitized name holds none of the replaced
\* characters and neither starts nor ends with '-', so sanitizing it again
\* gives the same name.
C11_SanitizeIdempotent ==
    call.op = "sanitize" =>
        /\ call.twice = call.once
        /\ \A i \in 1..Len(call.once) : call.once[i] \notin SanitizedChars
        /\ call.once # <<>> =>
              (Head(call.once) # "-" /\ call.once[Len(call.once)] # "-")

\* A name that sanitizing changes by replacing and by trimming.
C11_Witness ==
    /\ call.op = "sanitize"
    /\ call.name = <<"/", "a", "#">> /\ call.once = <<"a">>
    /\ call.twice = call.once

IsResolve == call.op = "resolve_target"

\* C12: the identifier "1" resolves to the main space, with is_main set and the
\* repository root as path, whatever the clones directory and the prefix hold.
C12_OneIsAlwaysMain ==
    (IsResolve /\ call.identifier = <<"1">>) =>
        /\ call.result.found /\ call.result.is_main
        /\ call.result.path = RepoRoot

\* "1" resolved while a directory named <prefix>1 exists in the clones
\* directory.
C12_Witness ==
    /\ IsResolve /\ call.identifier = <<"1">>
    /\ Append(clonesDir, prefix \o <<"1">>) \in dirs
    /\ call.result.is_main /\ call.result.path = RepoRoot

BranchOfHead(head) ==
    IF head.kind = "branch" THEN head.name ELSE Detached

\* C13 (as amended): the branch reported for "1" is the branch HEAD is on, and
\* "(detached)" both when HEAD is detached and when the branch lookup fails
\* altogether.
C13_MainBranchOrDetached ==
    (IsResolve /\ call.identifier = <<"1">>) =>
        call.result.branch = BranchOfHead(call.head)

\* The lookup fails altogether and "(detached)" is reported.
C13_Witness ==
    /\ IsResolve /\ call.identifier = <<"1">>
    /\ call.head.kind = "failed" /\ call.result.branch = Detached

\* C13 (as stated): as above, but "unknown" when the branch lookup fails
\* altogether.
C13_UnknownOnFailure ==
    (IsResolve /\ call.identifier = <<"1">>) =>
        call.result.branch =
            IF call.head.kind = "failed"
            THEN <<"u", "n", "k", "n", "o", "w", "n">>
            ELSE BranchOfHead(call.head)

\* The directory resolve_target looks for: clones_dir joined with the prefix
\* and the sanitized identifier.
DirectOf(identifier) ==
    PathJoin(clonesDir, prefix \o sanitize_branch_name(identifier))

\* C14: for an identifier other than "1", if the directory <prefix><sanitized
\* identifier> exists in the clones directory the result is a non-main target
\* with that path and the identifier as given for name; if it does not exist
\* the result is the not-found error naming the identifier; and the
\* filesystem is as it was.
C14_OtherIdsResolveBySanitizedName ==
    (IsResolve /\ call.identifier # <<"1">>) =>
        /\ IsDir(call.dirsBefore, DirectOf(call.identifier)) =>
              /\ call.result.found /\ ~call.result.is_main
              /\ call.result.path = DirectOf(call.identifier)
              /\ call.result.name = call.identifier
        /\ ~IsDir(call.dirsBefore, DirectOf(call.identifier)) =>
              /\ ~call.result.found
              /\ call.result.error = call.identifier
        /\ dirs = call.dirsBefore /\ files = call.filesBefore

\* "a#" resolves to the space a and keeps its name.
C14_Witness ==
    /\ IsResolve /\ call.identifier = <<"a", "#">>
    /\ call.result.found /\ ~call.result.is_main
    /\ call.result.path = Append(clonesDir, prefix \o <<"a">>)
    /\ call.result.name = <<"a", "#">>

\* "b/a" names no space and is not found.
C14_WitnessNotFound ==
    /\ IsResolve /\ call.identifier = <<"b", "/", "a">>
    /\ ~call.result.found /\ call.result.error = <<"b", "/", "a">>

\* C24: the path resolve_target gives for an identifier other than "1" denotes
\* a directory directly in clones_dir whose name begins with the prefix: never
\* clones_dir, a directory above it, or the repository root.
C24_ResolvedPathIsChildOfClonesDir ==
    (IsResolve /\ call.identifier # <<"1">> /\ call.result.found) =>
        LET real == Resolve(dirs, call.result.path)
        IN  /\ real # Unresolved
            /\ Len(real) = Len(clonesDir) + 1 /\ Parent(real) = clonesDir
            /\ StartsWith(real[Len(real)], prefix)
            /\ ~AtOrBelow(real, clonesDir)
            /\ real # RepoRoot

-----------------------------------------------------------------------------
(* Claims about new                                                        *)

NewSucceeded == call.op = "cmd_new" /\ call.result = "ok"

\* resolve_target in the state new leaves.
ResolvedNow(identifier) == resolve_target(dirs, identifier, clonesDir, prefix)

\* The names that sanitize as the name given to new does.
SameSanitized ==
    { m \in NewNames :
        sanitize_branch_name(m) = sanitize_branch_name(call.space) }

\* C15 (as amended): after new succeeds for a name other than "1",
\* resolve_target of that name succeeds with the path new created, and so
\* does resolve_target of every name other than "1" that sanitizes to the
\* same text.
C15_NewThenResolveRoundTrips ==
    (NewSucceeded /\ call.space # <<"1">>) =>
        /\ Resolve(dirs, call.clone_path) \in dirs \ call.dirsBefore
        /\ \A m \in SameSanitized \ {<<"1">>} :
              /\ ResolvedNow(m).found /\ ~ResolvedNow(m).is_main
              /\ ResolvedNow(m).path = call.clone_path

\* new "a#" created the directory a, which "a#", "a" and "/a" resolve to.
C15_Witness ==
    /\ NewSucceeded /\ call.space = <<"a", "#">>
    /\ call.clone_path = Append(clonesDir, prefix \o <<"a">>)
    /\ {<<"a">>, <<"/", "a">>} \subseteq SameSanitized
    /\ ResolvedNow(<<"/", "a">>).path = call.clone_path

\* C15 (as stated): as above, for every name that sanitizes to the same text,
\* "1" included.
C15_AnyTwoNamesSameSpace ==
    (NewSucceeded /\ call.space # <<"1">>) =>
        \A m \in SameSanitized :
            /\ ResolvedNow(m).found
            /\ ResolvedNow(m).path = call.clone_path

IsNew == call.op = "cmd_new"

\* create_clone of the last new reached the checkout of a branch.
ReachedCheckout ==
    /\ IsNew /\ call.options.branch.some
    /\ call.result \notin {"err_usage", "err_mirror", "err_exists",
                           "err_mkdir", "err_clone"}

\* C23: when new is given a branch, the one git checkout that is run is
\* `checkout -b <branch> origin/<branch>` when the mirror has the
\* remote-tracking branch; else `checkout <branch>` when the mirror has the
\* local branch; else `checkout -b <branch> <base>` with the --from reference,
\* or the default branch without --from.  When that checkout fails, new fails
\* and no other tier is tried; without a branch no checkout is run.
C23_CheckoutTiersInOrder ==
    IsNew =>
      LET git    == call.options.git
          branch == call.options.branch.v
          from   == call.options.from
      IN  /\ ReachedCheckout =>
                /\ git.hasRemote => call.tier = TrackRemote(branch)
                /\ (~git.hasRemote /\ git.hasLocal) =>
                      call.tier = CheckoutLocal(branch)
                /\ (~git.hasRemote /\ ~git.hasLocal) =>
                      /\ call.tier.name = "new_from_base"
                      /\ call.tier.start = IF from.some THEN from.v
                                           ELSE DefaultBranch
                /\ ~git.checkoutOk => call.result = "err_checkout"
          /\ ~ReachedCheckout => call.tier = NoCheckout

\* new -b dev with both refs in the mirror: the remote-tracking tier.
C23_Witness ==
    /\ ReachedCheckout /\ call.result = "ok"
    /\ call.options.git.hasRemote /\ call.options.git.hasLocal
    /\ call.tier.name = "track_remote"

\* new -b dev --from base with neither ref in the mirror.
C23_WitnessBase ==
    /\ ReachedCheckout /\ call.result = "ok"
    /\ call.options.from.some
    /\ call.tier = NewFromBase(call.options.from.v)

-----------------------------------------------------------------------------
(* Claims about clean                                                      *)

IsClean == call.op = "cmd_clean"

\* C25: clean --dry-run changes nothing on the filesystem: every directory and
\* file is there after the command as before it.
C25_CleanDryRunChangesNothing ==
    (IsClean /\ call.options.dry_run) =>
        (dirs = call.dirsBefore /\ files = call.filesBefore)

\* The planned clone path of the last new existed when new was run.
ClonePathExisted ==
    IsNew /\ Exists(call.dirsBefore, call.filesBefore, call.clone_path)

\* C26: when the planned clone path exists, create_clone, once cmd_new calls
\* it, fails with "Clone already exists": nothing is cloned or checked out,
\* neither the copy block nor the postCreate hooks run, and every directory
\* and file is left as it was.
C26_ExistingSpaceIsAnError ==
    ClonePathExisted =>
        /\ call.result \in {"err_usage", "err_mirror", "err_exists"}
        /\ "create_clone" \in Range(call.steps) => call.result = "err_exists"
        /\ "copy" \notin Range(call.steps)
        /\ "run_hooks" \notin Range(call.steps)
        /\ call.tier = NoCheckout
        /\ dirs = call.dirsBefore /\ files = call.filesBefore

\* new a -b dev while the space a exists, with a copy pattern and a
\* postCreate hook configured: "Clone already exists".
C26_Witness ==
    /\ ClonePathExisted /\ call.space = A
    /\ Append(call.clone_path, DotGit) \in call.dirsBefore
    /\ call.options.branch.some /\ ~call.options.no_copy
    /\ store # EmptyStore
    /\ call.result = "err_exists"
    /\ call.steps = <<"ensure_mirror", "create_clone">>

-----------------------------------------------------------------------------
(* Claims about hooks                                                      *)

IsHooks == call.op = "run_hooks"

\* The positions of the hooks that are commands, in order.
RECURSIVE CommandsFrom(_, _)
CommandsFrom(hooks, i) ==
    IF i > Len(hooks) THEN <<>>
    ELSE (IF Trim(hooks[i]) = <<>> THEN <<>> ELSE <<i>>)
            \o CommandsFrom(hooks, i + 1)

\* Every hook that is a command could be started.
AllStarted ==
    \A i \in 1..Len(call.hooks) :
        Trim(call.hooks[i]) # <<>> => call.status[i] # "nospawn"

=============================================================================
